---- MODULE Spec2Model ----
(***************************************************************************)
(* Session/state coordination layer of the EGE English bot.                *)
(*                                                                         *)
(* The model follows src/src/exercise_manager.py (ExerciseManager),        *)
(* src/src/test_manager.py (TestManager), src/src/bot/handlers.py (the     *)
(* update handlers), src/src/llm/service.py (LLMService.generate_content)  *)
(* and src/src/utils/validators.py (the test-completion gate).             *)
(*                                                                         *)
(* Dispatch: main.py builds the Application with its defaults, so updates  *)
(* are processed one at a time; a handler that awaits the generator is     *)
(* the only handler in flight.  The suspension at the generator call is    *)
(* kept as a position of its own (variable pending).                       *)
(*                                                                         *)
(* Python dicts are functions whose DOMAIN is the set of keys present.     *)
(* exercise_results (exercise_manager.py:31,342) is written and never      *)
(* read by the program; it is not carried in the state.                    *)
(***************************************************************************)
EXTENDS Integers, Sequences, FiniteSets, TLC

\* ------------------------------------------------------------------ bounds

\* Longest JSON array the generator returns in the model.
MaxGenItems == 2

\* Number of uuid4 values drawn in a run (session tokens).
MaxUuid == 2

\* Largest item count of the scoring specification (SpecScore).
MaxCount == 13

\* Longest question bank of the fixed test in the model.
MaxBank == 2

\* Fixed tests a user finishes in a run.
MaxTests == 2

\* Free texts handled in a run (two entries of a transcript each).
MaxMessages == 11

\* Free texts handled in a run of two users.
MaxSharedTurns == 2

\* ------------------------------------------------------------- vocabulary

AllUsers == {1}

Subjects == {"vocabulary", "grammar"}

OptionLetters == {"A", "B", "C", "D"}

\* Letters an answer callback carries: the rendered ones are upper-case, a
\* hand-made callback may carry any text.
CallbackLetters == {"A", "b"}

\* Indices an answer callback carries (any integer parses).
CallbackIndices == {-6, -1, 0, 1, 2, 3, 4, 5}

VARIABLES
    active_exercises,     \* user -> sequence of exercises
    user_answers,         \* user -> (exercise id -> letter)
    user_current_index,   \* user -> index
    session_ids,          \* user -> uuid
    uuid_count,           \* uuid4 values drawn so far
    has_completed_test,   \* persisted user record flag, user -> BOOLEAN
    record_test_results,  \* persisted user record, user -> its test_results as read
    test_file,            \* persisted data/tests/user_<id>.json, user -> state
    active_tests,         \* user -> running fixed test
    pending,              \* user -> subject, the handler awaiting the generator
    reply,                \* what the last handled update sent and logged
    calc,                 \* input/output of the scoring function (SpecScore)
    fixed_test,           \* TestManager.fixed_test, the question bank
    test_results,         \* TestManager.test_results, user -> sequence of results
    rendered,             \* the answer buttons in the user's chat: user ->
                          \* the session prefixes they carry, those of the
                          \* batch installed last apart from the earlier ones,
                          \* and the prefixes of the batches whose
                          \* exercise_finish button was sent
    user_chat_history,    \* handlers.user_chat_history, user -> transcript
    user_data,            \* context.user_data, user -> [mode] once it is set
    llm_request,          \* the last conversational call of the generator
    appended,             \* user -> entries appended since the last clear
    turn_modes            \* the prompt type of each conversational turn

vars == <<active_exercises, user_answers, user_current_index, session_ids,
          uuid_count, has_completed_test, record_test_results, test_file, active_tests, pending,
          reply, calc, fixed_test, test_results, rendered, user_chat_history,
          user_data, llm_request, appended, turn_modes>>

\* The state of the conversation handlers.
chat_vars == <<user_chat_history, user_data, llm_request, appended, turn_modes>>

\* ---------------------------------------------------------------- dicts

EmptyDict == << >>

Has(d, k) == k \in DOMAIN d

Put(d, k, v) == [x \in (DOMAIN d) \cup {k} |-> IF x = k THEN v ELSE d[x]]

Del(d, k) == [x \in (DOMAIN d) \ {k} |-> d[x]]

\* ---------------------------------------------------------------- text

Upper(c) ==
    CASE c = "a" -> "A"
      [] c = "b" -> "B"
      [] c = "c" -> "C"
      [] c = "d" -> "D"
      [] c = "x" -> "X"
      [] OTHER -> c

UpperSeq(s) == [i \in 1..Len(s) |-> Upper(s[i])]

RECURSIVE LStrip(_)
LStrip(s) == IF Len(s) > 0 /\ Head(s) = " " THEN LStrip(Tail(s)) ELSE s

RECURSIVE RStrip(_)
RStrip(s) ==
    IF Len(s) > 0 /\ s[Len(s)] = " " THEN RStrip(SubSeq(s, 1, Len(s) - 1)) ELSE s

Strip(s) == RStrip(LStrip(s))

IsOptionLetter(ch) == ch \in OptionLetters

\* str(...).strip().upper(), re.sub(r"[^A-D]", "", ...)[:1]; "" when nothing is left.
NormalizeCorrect(raw) ==
    LET kept == SelectSeq(UpperSeq(Strip(raw)), IsOptionLetter)
    IN  IF Len(kept) = 0 THEN "" ELSE kept[1]

\* str(user_id)
UserStr(u) == ToString(u)

\* -------------------------------------------------------------- exercises

\* An Exercise: the fields the session logic reads.  options is the number
\* of options of the item; the exercise id is the f-string's three parts.
Exercise(exercise_id, subject, options, correct_answer) ==
    [exercise_id |-> exercise_id, subject |-> subject,
     options |-> options, correct_answer |-> correct_answer]

\* The number of exercises asked of the generator and held by a fallback batch.
BatchSize == 5

FallbackCorrect(subject) ==
    IF subject = "vocabulary" THEN <<"A", "A", "A", "B", "A">>
    ELSE IF subject = "grammar" THEN <<"B", "B", "C", "A", "C">>
    ELSE << >>

\* A fallback table without entries.
FallbackExercisesNone(subject) == << >>

\* _get_fallback_exercises: five fixed items per subject, [] for any other subject.
FallbackExercises(subject) ==
    [k \in 1..Len(FallbackCorrect(subject)) |->
        Exercise(<<subject, "fallback", k>>, subject, 4, FallbackCorrect(subject)[k])]

\* ----------------------------------------------------- generator output

\* One element of the JSON array the generator returns.  options is the
\* length of data["options"], or -1 when it is missing or not a list.
GoodItemA ==
    [isdict |-> TRUE, has_question |-> TRUE, has_explanation |-> TRUE,
     options |-> 4, correct_answer |-> <<"A">>]

GoodItemB ==
    [isdict |-> TRUE, has_question |-> TRUE, has_explanation |-> TRUE,
     options |-> 4, correct_answer |-> <<" ", "b", ")">>]

ShortOptionsItem ==
    [isdict |-> TRUE, has_question |-> TRUE, has_explanation |-> TRUE,
     options |-> 3, correct_answer |-> <<"A">>]

BadLetterItem ==
    [isdict |-> TRUE, has_question |-> TRUE, has_explanation |-> TRUE,
     options |-> 4, correct_answer |-> <<"x">>]

NoQuestionItem ==
    [isdict |-> TRUE, has_question |-> FALSE, has_explanation |-> TRUE,
     options |-> 4, correct_answer |-> <<"A">>]

NotDictItem ==
    [isdict |-> FALSE, has_question |-> FALSE, has_explanation |-> FALSE,
     options |-> -1, correct_answer |-> << >>]

GenItemSamples ==
    {GoodItemA, GoodItemB, ShortOptionsItem, BadLetterItem, NoQuestionItem, NotDictItem}

GenLists == UNION {[1..n -> GenItemSamples] : n \in 0..MaxGenItems}

\* A parsed JSON value: a scalar, an object (wrapped: it has a key
\* 'exercises' holding a list), or a list.
JScalar == [type |-> "scalar", wrapped |-> FALSE, items |-> << >>]

JDict(wrapped, items) == [type |-> "dict", wrapped |-> wrapped, items |-> items]

JList(items) == [type |-> "list", wrapped |-> FALSE, items |-> items]

\* Result of json.loads.
Parsed(val) == [ok |-> TRUE, val |-> val]

NoParse == [ok |-> FALSE, val |-> JScalar]

\* Result of re.search(r'\[.*\]') followed by json.loads of the match; a
\* match begins with '[', so what parses is a list.
NoBracket == [found |-> FALSE, parse |-> NoParse]

BadBracket == [found |-> TRUE, parse |-> NoParse]

Bracket(items) == [found |-> TRUE, parse |-> Parsed(JList(items))]

\* A response text, by what the parser reads of it: whether it is empty or
\* blank, the strict parse, whether it holds a ``` fence, the bracketed
\* array inside the fence and the bracketed array of the whole text.
Text(empty, strict, has_fence, fence_bracket, bracket) ==
    [empty |-> empty, strict |-> strict, has_fence |-> has_fence,
     fence_bracket |-> fence_bracket, bracket |-> bracket]

EmptyText == Text(TRUE, NoParse, FALSE, NoBracket, NoBracket)

\* The three fixed messages generate_content returns on failure: no JSON,
\* no fence, no bracket.
ErrorText == Text(FALSE, NoParse, FALSE, NoBracket, NoBracket)

\* The arrays tried in every wrapping: the empty one and those of one element.
ShortLists == {l \in GenLists : Len(l) <= 1}

Brackets == {NoBracket, BadBracket} \cup {Bracket(l) : l \in ShortLists}

GenTexts ==
    {EmptyText}
    \cup {Text(FALSE, Parsed(JScalar), FALSE, NoBracket, NoBracket),
          Text(FALSE, Parsed(JDict(FALSE, << >>)), FALSE, NoBracket, NoBracket)}
    \cup {Text(FALSE, Parsed(JDict(TRUE, l)), FALSE, NoBracket, Bracket(l)) : l \in ShortLists}
    \cup {Text(FALSE, Parsed(JList(l)), FALSE, NoBracket, Bracket(l)) : l \in GenLists}
    \cup {Text(FALSE, NoParse, FALSE, NoBracket, b) : b \in Brackets}
    \cup {Text(FALSE, NoParse, TRUE, b, Bracket(<<GoodItemA>>)) : b \in Brackets}

\* What the remote call does: it times out, fails in transport, fails
\* otherwise (a reply without content included), or delivers a text.
GenOutcomes ==
    {[api |-> a, content |-> EmptyText] : a \in {"timeout", "api_error", "exception"}}
    \cup {[api |-> "ok", content |-> t] : t \in GenTexts}

\* LLMService.generate_content: the text handed to the caller and the log line.
GenerateContent(outcome) ==
    CASE outcome.api = "timeout" -> [text |-> ErrorText, log |-> {"gpt_timeout"}]
      [] outcome.api = "api_error" -> [text |-> ErrorText, log |-> {"gpt_api_error"}]
      [] outcome.api = "exception" -> [text |-> ErrorText, log |-> {"gpt_unexpected_error"}]
      [] OTHER -> [text |-> outcome.content, log |-> {}]

\* ------------------------------------------------- _generate_exercises

\* The loop body of _generate_exercises for one element: whether an
\* Exercise is appended.  A non-dict raises inside the try; a missing
\* field is logged and the element is processed all the same; a missing
\* question or explanation raises KeyError in the Exercise(...) call.
ItemAccepted(data) ==
    /\ data.isdict
    /\ data.options = 4
    /\ NormalizeCorrect(data.correct_answer) \in OptionLetters
    /\ data.has_question
    /\ data.has_explanation

ItemLog(data) ==
    IF ~data.isdict THEN {"error_creating_exercise"}
    ELSE (IF data.has_question /\ data.has_explanation THEN {} ELSE {"missing_field"})
         \cup (IF data.options # 4 THEN {"invalid_options_length"}
               ELSE IF NormalizeCorrect(data.correct_answer) \notin OptionLetters
                    THEN {"invalid_correct_answer"}
               ELSE IF ~(data.has_question /\ data.has_explanation)
                    THEN {"error_creating_exercise"}
               ELSE {})

\* 0-based positions of the accepted elements, in order.
AcceptedPositions(items) ==
    SelectSeq([i \in 1..Len(items) |-> i - 1], LAMBDA i : ItemAccepted(items[i + 1]))

\* exercise_id=f"{subject}_{user_id}_{i}", i the element's position in the array.
GeneratedExercise(subject, u, i, data) ==
    Exercise(<<subject, UserStr(u), i>>, subject, data.options,
             NormalizeCorrect(data.correct_answer))

ExercisesFromList(subject, u, items) ==
    LET pos == AcceptedPositions(items)
    IN  [k \in 1..Len(pos) |-> GeneratedExercise(subject, u, pos[k], items[pos[k] + 1])]

ListLog(items) == UNION {ItemLog(items[i]) : i \in 1..Len(items)}

\* The value the exercises are read from: json.loads of the response, else
\* the bracketed array of the fenced part (when there is a fence) or of the
\* whole text.
LocateJson(text) ==
    IF text.strict.ok THEN [ok |-> TRUE, val |-> text.strict.val, log |-> {}]
    ELSE LET b == IF text.has_fence THEN text.fence_bracket ELSE text.bracket
         IN  IF ~b.found THEN [ok |-> FALSE, val |-> JScalar, log |-> {"no_json_found"}]
             ELSE IF ~b.parse.ok
                  THEN [ok |-> FALSE, val |-> JScalar, log |-> {"could_not_parse_json"}]
             ELSE [ok |-> TRUE, val |-> b.parse.val, log |-> {}]

\* _generate_exercises after the generator call: the list it returns and what it logs.
ParseExercises(subject, u, text) ==
    IF text.empty
    THEN [exercises |-> FallbackExercises(subject), log |-> {"empty_response"}]
    ELSE LET j == LocateJson(text)
         IN  IF ~j.ok THEN [exercises |-> FallbackExercises(subject), log |-> j.log]
             ELSE IF ~((j.val.type = "dict" /\ j.val.wrapped) \/ j.val.type = "list")
                  THEN [exercises |-> FallbackExercises(subject),
                        log |-> {"unexpected_shape"}]
             ELSE LET made == ExercisesFromList(subject, u, j.val.items)
                  IN  IF Len(made) > 0
                      THEN [exercises |-> made, log |-> ListLog(j.val.items)]
                      ELSE [exercises |-> FallbackExercises(subject),
                            log |-> ListLog(j.val.items) \cup {"no_valid_exercises"}]

\* _generate_exercises: the generator call and the parse of what it returns.
GenerateExercises(subject, u, outcome) ==
    LET got == GenerateContent(outcome)
        parsed == ParseExercises(subject, u, got.text)
    IN  [exercises |-> parsed.exercises, log |-> got.log \cup parsed.log]

\* -------------------------------------------------------------- scoring

\* correct_count / total_count * 100, kept exact as a fraction num/den.
Percentage(correct, total) ==
    IF total > 0 THEN [num |-> correct * 100, den |-> total] ELSE [num |-> 0, den |-> 1]

\* The comparison made strict.
AtLeastStrict(p, threshold) == p.num > threshold * p.den

\* percentage >= threshold
AtLeast(p, threshold) == p.num >= threshold * p.den

\* The level texts of finish_exercise_session, by the tier they name.
Level(p) ==
    IF AtLeast(p, 80) THEN "excellent"
    ELSE IF AtLeast(p, 60) THEN "good"
    ELSE IF AtLeast(p, 40) THEN "fair"
    ELSE "needs_improvement"

\* ------------------------------------------------------- session tokens

\* The n-th uuid4 of the run: its first six characters and the rest.  Two
\* draws differ in their first six characters.
\* Every draw gives the same value.
Uuid4Fixed(n) == [prefix |-> 1, rest |-> 1]

Uuid4(n) == [prefix |-> n, rest |-> n]

\* sid[:6]
ShortOf(sid) == sid.prefix

\* get_short_session_id stores a new uuid when the user has none.
SessionIdsAfterGet(u) ==
    IF Has(session_ids, u) THEN session_ids
    ELSE Put(session_ids, u, Uuid4(uuid_count + 1))

UuidCountAfterGet(u) == IF Has(session_ids, u) THEN uuid_count ELSE uuid_count + 1

GetShortSessionId(u) == ShortOf(SessionIdsAfterGet(u)[u])

CanGetSessionId(u) == Has(session_ids, u) \/ uuid_count < MaxUuid

\* ------------------------------------------------------------- replies

\* What one handled update sent to the user (kind, data) and logged (log).
Msg(u, kind, log, data) == [to |-> u, kind |-> kind, log |-> log, data |-> data]

NoData == [none |-> TRUE]

\* show_exercise: the message of one exercise; its four answer buttons
\* carry ex:<session>:<index>:<letter>, and the last exercise carries the
\* exercise_finish button.
ShownExercise(session, index, total) ==
    [session |-> session, index |-> index, total |-> total,
     finish_button |-> (index = total - 1)]

\* --------------------------------------------- finish_exercise_session

\* user_answers.get(exercise.exercise_id, "")
AnswerFor(answers, exercise) ==
    IF Has(answers, exercise.exercise_id) THEN answers[exercise.exercise_id] ELSE ""

\* user_answer.upper() == exercise.correct_answer.upper()
IsCorrect(user_answer, correct_answer) == Upper(user_answer) = Upper(correct_answer)

ItemResult(answers, exercise) ==
    [exercise_id |-> exercise.exercise_id,
     user_answer |-> AnswerFor(answers, exercise),
     correct_answer |-> exercise.correct_answer,
     is_correct |-> IsCorrect(AnswerFor(answers, exercise), exercise.correct_answer)]

CorrectCount(results) == Cardinality({i \in 1..Len(results) : results[i].is_correct})

\* percentage and level from the two counts
ScoreSummary(correct, total) ==
    [total_questions |-> total, correct_answers |-> correct,
     percentage |-> Percentage(correct, total),
     level |-> Level(Percentage(correct, total))]

NoSessionError == [error |-> "No active exercise session"]

\* finish_exercise_session without its first check: no session scores as
\* an empty one.
FinishExerciseSessionUnguarded(active, all_answers, u) ==
    LET exercises == IF Has(active, u) THEN active[u] ELSE << >>
        answers == IF Has(all_answers, u) THEN all_answers[u] ELSE EmptyDict
        results == [i \in 1..Len(exercises) |-> ItemResult(answers, exercises[i])]
    IN  ScoreSummary(CorrectCount(results), Len(exercises)) @@ [results |-> results]

\* The dict finish_exercise_session returns, from the two maps it reads:
\* the summary of the counts (correct_count is computed once) and the
\* per-item results.
FinishExerciseSession(active, all_answers, u) ==
    IF ~Has(active, u) THEN NoSessionError
    ELSE LET exercises == active[u]
             answers == IF Has(all_answers, u) THEN all_answers[u] ELSE EmptyDict
             results == [i \in 1..Len(exercises) |-> ItemResult(answers, exercises[i])]
         IN  CHOOSE ret \in {ScoreSummary(correct_count, Len(exercises))
                                 @@ [results |-> results] :
                             correct_count \in {CorrectCount(results)}} : TRUE

IsError(ret) == "error" \in DOMAIN ret

\* is_exercise_session_active
IsExerciseSessionActive(u) == Has(active_exercises, u) /\ Len(active_exercises[u]) > 0

\* ---------------------------------------------------------- user record

\* User(user_id=...): the record of a user without a readable file.
NewUser == [has_completed_test |-> FALSE, test_results |-> << >>]

\* get_user: the persisted record as it reads (a missing or cut-off file
\* reads as a new user's record).
GetUser(u) ==
    [has_completed_test |-> has_completed_test[u],
     test_results |-> record_test_results[u]]

\* User.add_test_result
AddTestResult(user, result) ==
    [has_completed_test |-> TRUE, test_results |-> Append(user.test_results, result)]

\* save_user, by what get_user reads afterwards: to_dict turns the
\* datetimes at the top level and one dict level down into strings, not
\* the completed_at of the entries of test_results, so json.dump raises
\* on a record with a test result after the file was opened for writing;
\* the exception is caught and the cut-off file reads as a new user's.
SaveUser(user) == IF Len(user.test_results) = 0 THEN user ELSE NewUser

\* mark_test_completed that saves the record as it was read.
MarkTestCompletedUnchanged(u) == SaveUser(GetUser(u))

\* mark_test_completed
MarkTestCompleted(u) == SaveUser([GetUser(u) EXCEPT !.has_completed_test = TRUE])

\* ------------------------------------------------------------- the gate

\* A gate that lets every user without the flag through as if results
\* were on file.
GateWithoutFileCheck(u) ==
    IF Has(active_tests, u) THEN "active_test"
    ELSE IF has_completed_test[u] THEN "pass"
    ELSE "autofix"

\* A gate without the check of the running test.
GateIgnoresRunningTest(u) ==
    IF has_completed_test[u] THEN "pass"
    ELSE IF test_file[u] = "results" THEN "autofix"
    ELSE "redirect"

\* require_test_completion: "active_test" and "redirect" suppress the
\* command, "autofix" sets the flag from the persisted results and lets
\* it through, "pass" lets it through.
Gate(u) ==
    IF Has(active_tests, u) THEN "active_test"
    ELSE IF has_completed_test[u] THEN "pass"
    ELSE IF test_file[u] = "results" THEN "autofix"
    ELSE "redirect"

\* ------------------------------------------------------------ callbacks

\* The data of an update routed to handle_exercise_answer (pattern ^ex:):
\* the number of ':'-separated fields, whether the third one parses as an
\* int, and the three fields after "ex".
Callback(parts, int_index, session, index, letter) ==
    [parts |-> parts, int_index |-> int_index, session |-> session,
     index |-> index, letter |-> letter]

\* Session prefixes a callback carries: 0 is a prefix no session ever had.
CallbackSessions == 0..MaxUuid

Callbacks ==
    {Callback(3, TRUE, 0, 0, "A"), Callback(4, FALSE, 0, 0, "A")}
    \cup {Callback(4, TRUE, s, i, l) :
            s \in CallbackSessions, i \in CallbackIndices, l \in CallbackLetters}

\* The callbacks that can arrive: their prefix is 0 or one drawn so far (a
\* prefix not drawn yet is rejected like 0).
ArrivingCallbacks == {cb \in Callbacks : cb.session <= uuid_count}

\* The token comparison left out.
IsStaleSessionNever(session, current) == FALSE

\* session_id != current_session
IsStaleSession(session, current) == session # current

\* The bound check off by one.
IndexOutOfRangeEarly(index, n) == index >= n - 1

\* current_index >= len(exercises)
IndexOutOfRange(index, n) == index >= n

\* exercises[current_index] of a Python list: a negative index counts from
\* the end, an index below -len raises IndexError.
IndexRaises(index, n) == index < -n

ItemAt(exercises, index) ==
    IF index >= 0 THEN exercises[index + 1] ELSE exercises[Len(exercises) + index + 1]

\* short_exercise_id = f"{current_exercise.subject}_{user_id}_{current_index}"
ShortExerciseId(exercise, u, index) == <<exercise.subject, UserStr(u), index>>

\* The duplicate check left out.
IsDuplicateNever(all_answers, u, key) == FALSE

\* user_id in user_answers and short_exercise_id in user_answers[user_id]
IsDuplicate(all_answers, u, key) == Has(all_answers, u) /\ Has(all_answers[u], key)

\* submit_answer
SubmitAnswer(all_answers, u, key, letter) ==
    Put(all_answers, u,
        Put(IF Has(all_answers, u) THEN all_answers[u] ELSE EmptyDict, key, letter))

\* The state handle_exercise_answer leaves and what it sends.
Outcome(active, answers, index, sids, uuids, msg) ==
    [active |-> active, answers |-> answers, index |-> index,
     sids |-> sids, uuids |-> uuids, msg |-> msg]

\* The accepted answer advancing from the stored cursor, not from the index
\* of the callback.
AcceptAnswerFromCursor(u, cb, exercises, key) ==
    LET answers == SubmitAnswer(user_answers, u, key, cb.letter)
        next_index == (IF Has(user_current_index, u) THEN user_current_index[u] ELSE 0) + 1
        ret == FinishExerciseSession(active_exercises, answers, u)
    IN  IF next_index < Len(exercises)
        THEN Outcome(active_exercises, answers,
                     Put(user_current_index, u, next_index),
                     SessionIdsAfterGet(u), UuidCountAfterGet(u),
                     Msg(u, "exercise", {"answer_submitted", "showing_next"},
                         ShownExercise(GetShortSessionId(u), next_index, Len(exercises))))
        ELSE Outcome(Del(active_exercises, u), Del(answers, u),
                     Del(user_current_index, u),
                     Del(SessionIdsAfterGet(u), u), UuidCountAfterGet(u),
                     Msg(u, "results", {"answer_submitted", "last_exercise_completed"}, ret))

\* handle_exercise_answer from the point where the answer is stored.
AcceptAnswer(u, cb, exercises, key) ==
    LET answers == SubmitAnswer(user_answers, u, key, cb.letter)
        next_index == cb.index + 1
        ret == FinishExerciseSession(active_exercises, answers, u)
    IN  IF next_index < Len(exercises)
        THEN Outcome(active_exercises, answers,
                     Put(user_current_index, u, next_index),
                     SessionIdsAfterGet(u), UuidCountAfterGet(u),
                     Msg(u, "exercise", {"answer_submitted", "showing_next"},
                         ShownExercise(GetShortSessionId(u), next_index, Len(exercises))))
        ELSE Outcome(Del(active_exercises, u), Del(answers, u),
                     Del(user_current_index, u),
                     Del(SessionIdsAfterGet(u), u), UuidCountAfterGet(u),
                     Msg(u, "results", {"answer_submitted", "last_exercise_completed"}, ret))

\* handle_exercise_answer
AnswerOutcome(u, cb) ==
    LET same(msg) == Outcome(active_exercises, user_answers, user_current_index,
                             session_ids, uuid_count, msg)
        checked(msg) == Outcome(active_exercises, user_answers, user_current_index,
                                SessionIdsAfterGet(u), UuidCountAfterGet(u), msg)
    IN  IF cb.parts # 4 THEN same(Msg(u, "format_error", {"invalid_callback_data"}, NoData))
        ELSE IF ~cb.int_index THEN same(Msg(u, "index_error", {"invalid_index"}, NoData))
        ELSE IF IsStaleSession(cb.session, GetShortSessionId(u))
             THEN checked(Msg(u, "stale_session", {"stale_session"}, NoData))
        ELSE IF ~Has(active_exercises, u)
             THEN checked(Msg(u, "no_session", {"no_active_exercises"}, NoData))
        ELSE IF IndexOutOfRange(cb.index, Len(active_exercises[u]))
             THEN checked(Msg(u, "out_of_range", {"index_out_of_range"}, NoData))
        ELSE IF IndexRaises(cb.index, Len(active_exercises[u]))
             THEN checked(Msg(u, "none", {"handler_error"}, NoData))
        ELSE LET exercises == active_exercises[u]
                 key == ShortExerciseId(ItemAt(exercises, cb.index), u, cb.index)
             IN  IF IsDuplicate(user_answers, u, key)
                 THEN checked(Msg(u, "none", {"duplicate_ignored"}, NoData))
                 ELSE AcceptAnswer(u, cb, exercises, key)

\* ---------------------------------------------------- buttons in the chat

\* No batch was installed, no button was sent.
NoButtons == [u \in AllUsers |-> [earlier |-> {}, current |-> {}, finish |-> {}]]

\* start_exercise_session installed a batch, so the buttons sent so far
\* belong to earlier batches; show_exercise (when it ran) sent the buttons
\* of the first exercise of the new batch under these prefixes.
NewBatchButtons(u, prefixes) ==
    [rendered EXCEPT ![u] = [earlier |-> @.earlier \cup @.current,
                             current |-> prefixes,
                             finish |-> @.finish]]

\* show_exercise sent the buttons of a later exercise of the installed batch.
MoreButtons(u, prefix) == [rendered EXCEPT ![u].current = @ \cup {prefix}]

\* show_exercise adds the exercise_finish button to the message of the last
\* exercise of a batch; finish holds the prefixes of the batches whose
\* message with that button was sent.
WithFinishButton(buttons, u, shown) ==
    IF shown.finish_button
    THEN [buttons EXCEPT ![u].finish = @ \cup {shown.session}]
    ELSE buttons

\* A button with this prefix was sent for a batch before the one installed last.
OnEarlierButton(u, prefix) == prefix \in rendered[u].earlier

\* A button with this prefix was sent for the batch installed last.
OnCurrentButton(u, prefix) == prefix \in rendered[u].current

\* ------------------------------------------------------ fixed test bank

\* One question of the bank: id, section, correct_answer and the keyword
\* groups its text (question, explanation, options) contains.
Question(id, section, correct_answer, keywords) ==
    [id |-> id, section |-> section, correct_answer |-> correct_answer,
     keywords |-> keywords]

\* create_default_test: the bank used when data/fixed_test.json is missing
\* or unreadable (one question, "By the time ... had already started").
CreateDefaultTest ==
    [questions |-> <<Question(1, "grammar", "a", {"past perfect"})>>]

\* -------------------------------------------------------------- actions

\* reset_exercise_session: the token in session_ids is left in place.
ResetExerciseSession(u) ==
    /\ active_exercises' = Del(active_exercises, u)
    /\ user_answers' = Del(user_answers, u)
    /\ user_current_index' = Del(user_current_index, u)

\* vocabulary_command / grammar_command up to the await of the generator:
\* the gate, the reset (when reset holds), the first statement of
\* start_exercise_session (a new token) and the call of the generator.
ExerciseCommand(u, subject, reset) ==
    /\ DOMAIN pending = {}
    /\ UNCHANGED <<test_file, active_tests, calc, fixed_test, chat_vars, test_results, rendered>>
    /\ IF Gate(u) = "active_test"
       THEN /\ reply' = Msg(u, "finish_test_first", {}, NoData)
            /\ UNCHANGED <<active_exercises, user_answers, user_current_index,
                           session_ids, uuid_count, has_completed_test, record_test_results, pending>>
       ELSE IF Gate(u) = "redirect"
       THEN /\ reply' = Msg(u, "take_test_first", {}, NoData)
            /\ UNCHANGED <<active_exercises, user_answers, user_current_index,
                           session_ids, uuid_count, has_completed_test, record_test_results, pending>>
       ELSE /\ uuid_count < MaxUuid
            /\ \E user \in {IF Gate(u) = "autofix" THEN MarkTestCompleted(u)
                            ELSE GetUser(u)} :
                   /\ has_completed_test' =
                          [has_completed_test EXCEPT ![u] = user.has_completed_test]
                   /\ record_test_results' =
                          [record_test_results EXCEPT ![u] = user.test_results]
            /\ IF reset THEN ResetExerciseSession(u)
               ELSE UNCHANGED <<active_exercises, user_answers, user_current_index>>
            /\ session_ids' = Put(session_ids, u, Uuid4(uuid_count + 1))
            /\ uuid_count' = uuid_count + 1
            /\ pending' = Put(pending, u, subject)
            /\ reply' = Msg(u, "creating",
                            IF Gate(u) = "autofix" THEN {"auto_fixing_flag"} ELSE {},
                            NoData)

VocabularyCommand(u) == ExerciseCommand(u, "vocabulary", TRUE)

GrammarCommand(u) == ExerciseCommand(u, "grammar", IsExerciseSessionActive(u))

\* The generator call returns: the rest of start_exercise_session and of
\* the command handler (the cursor is set to 0, the first exercise is shown).
GeneratorReturns(u, outcome) ==
    /\ Has(pending, u)
    /\ pending[u] \in Subjects
    /\ CanGetSessionId(u)
    /\ \E gen \in {GenerateExercises(pending[u], u, outcome)} :
       \E exercises \in {IF Len(gen.exercises) = 0 THEN FallbackExercises(pending[u])
                          ELSE gen.exercises} :
           /\ active_exercises' = Put(active_exercises, u, exercises)
           /\ user_answers' = Put(user_answers, u, EmptyDict)
           /\ IF Len(exercises) = 0
              THEN /\ reply' = Msg(u, "create_failed", gen.log, NoData)
                   /\ rendered' = NewBatchButtons(u, {})
                   /\ UNCHANGED <<user_current_index, session_ids, uuid_count>>
              ELSE /\ user_current_index' = Put(user_current_index, u, 0)
                   /\ session_ids' = SessionIdsAfterGet(u)
                   /\ uuid_count' = UuidCountAfterGet(u)
                   /\ rendered' =
                          WithFinishButton(
                              NewBatchButtons(u, {GetShortSessionId(u)}), u,
                              ShownExercise(GetShortSessionId(u), 0, Len(exercises)))
                   /\ reply' = Msg(u, "exercise", gen.log,
                                   ShownExercise(GetShortSessionId(u), 0, Len(exercises)))
    /\ pending' = Del(pending, u)
    /\ UNCHANGED <<has_completed_test, record_test_results, test_file, active_tests, calc, fixed_test, chat_vars,
                   test_results>>

HandleExerciseAnswer(u, cb) ==
    /\ DOMAIN pending = {}
    /\ (cb.parts = 4 /\ cb.int_index) => CanGetSessionId(u)
    /\ \E out \in {AnswerOutcome(u, cb)} :
           /\ active_exercises' = out.active
           /\ user_answers' = out.answers
           /\ user_current_index' = out.index
           /\ session_ids' = out.sids
           /\ uuid_count' = out.uuids
           /\ reply' = out.msg
           /\ rendered' = IF out.msg.kind = "exercise"
                           THEN WithFinishButton(MoreButtons(u, out.msg.data.session),
                                                 u, out.msg.data)
                           ELSE rendered
    /\ UNCHANGED <<has_completed_test, record_test_results, test_file, active_tests, pending, calc,
                   fixed_test, chat_vars, test_results>>

\* handle_exercise_finish: the cursor is not reset here.
HandleExerciseFinish(u) ==
    /\ DOMAIN pending = {}
    /\ LET ret == FinishExerciseSession(active_exercises, user_answers, u)
       IN  IF IsError(ret)
           THEN /\ reply' = Msg(u, "finish_error", {}, NoData)
                /\ UNCHANGED <<active_exercises, user_answers, session_ids>>
           ELSE /\ reply' = Msg(u, "results", {}, ret)
                /\ active_exercises' = Del(active_exercises, u)
                /\ user_answers' = Del(user_answers, u)
                /\ session_ids' = Del(session_ids, u)
    /\ UNCHANGED <<user_current_index, uuid_count, has_completed_test, record_test_results, test_file,
                   active_tests, pending, calc, fixed_test, chat_vars, test_results, rendered>>

ResetExercisesCommand(u) ==
    /\ DOMAIN pending = {}
    /\ IF IsExerciseSessionActive(u)
       THEN /\ ResetExerciseSession(u)
            /\ reply' = Msg(u, "reset_done", {}, NoData)
       ELSE /\ reply' = Msg(u, "no_active_session", {}, NoData)
            /\ UNCHANGED <<active_exercises, user_answers, user_current_index>>
    /\ UNCHANGED <<session_ids, uuid_count, has_completed_test, record_test_results, test_file,
                   active_tests, pending, calc, fixed_test, chat_vars, test_results, rendered>>

\* ---------------------------------------------------- fixed test engine

\* The texts of the bank in the model: one grammar question ("by the
\* time" in its text, correct a), one vocabulary question (no keyword of
\* the rules, correct b).
QuestionSamples(id) ==
    {Question(id, "grammar", "a", {"past perfect"}),
     Question(id, "vocabulary", "b", {})}

\* A bank file without the "questions" key.
NoQuestionsTest == [test_name |-> "no questions"]

\* load_fixed_test returns what data/fixed_test.json holds: a bank of any
\* length (the empty list included), numbered from 1, or a dict without
\* "questions"; create_default_test when the file is missing.
FixedTests ==
    {[questions |-> qs] :
        qs \in UNION {{q \in [1..n -> QuestionSamples(1) \cup QuestionSamples(2)
                                      \cup QuestionSamples(3)] :
                          \A i \in 1..n : q[i].id = i} : n \in 0..MaxBank}}
    \cup {NoQuestionsTest, CreateDefaultTest}

\* The letters a test_answer_<letter> callback carries.
TestLetters == {"a", "b"}

\* section.capitalize() for the other sections of a bank
Capitalize(section) ==
    CASE section = "reading" -> "Reading"
      [] section = "writing" -> "Writing"
      [] section = "essay" -> "Essay"
      [] OTHER -> section

\* _infer_topic: the first rule whose keywords occur in the text.
InferTopic(section, keywords) ==
    IF section = "grammar"
    THEN IF "past perfect" \in keywords THEN "Tenses: Past Perfect"
         ELSE IF "future continuous" \in keywords THEN "Tenses: Future Continuous"
         ELSE IF "present perfect" \in keywords THEN "Tenses: Present Perfect"
         ELSE IF "conditional" \in keywords THEN "Conditionals (II)"
         ELSE IF "modal" \in keywords THEN "Modals"
         ELSE IF "reported speech" \in keywords THEN "Reported Speech"
         ELSE IF "article" \in keywords THEN "Articles"
         ELSE IF "passive" \in keywords THEN "Passive Voice"
         ELSE IF "preposition" \in keywords THEN "Prepositions"
         ELSE "Grammar: Other"
    ELSE IF section = "vocabulary"
    THEN IF "phrasal" \in keywords THEN "Vocabulary: Phrasal Verbs"
         ELSE IF "collocation" \in keywords THEN "Vocabulary: Collocations"
         ELSE IF "word formation" \in keywords THEN "Vocabulary: Word Formation"
         ELSE IF "synonym" \in keywords THEN "Vocabulary: Synonyms/Antonyms"
         ELSE IF "idiom" \in keywords THEN "Vocabulary: Idioms"
         ELSE "Vocabulary: Other"
    ELSE Capitalize(section)

\* A new session that skips the first question.
NewTestAtOne(questions) ==
    [questions |-> questions, current_question |-> 1, score |-> 0, answers |-> << >>]

\* The session start_test_for_user stores.
NewTest(questions) ==
    [questions |-> questions, current_question |-> 0, score |-> 0, answers |-> << >>]

\* start_test_for_user succeeds unless reading fixed_test['questions'] raises.
CanStartTest == "questions" \in DOMAIN fixed_test

StartTestForUser(tests, u) ==
    IF CanStartTest THEN Put(tests, u, NewTest(fixed_test.questions)) ELSE tests

NoQuestion == [none |-> TRUE]

\* get_current_question
GetCurrentQuestion(tests, u) ==
    IF ~Has(tests, u) THEN NoQuestion
    ELSE IF tests[u].current_question < Len(tests[u].questions)
         THEN tests[u].questions[tests[u].current_question + 1]
         ELSE NoQuestion

\* The entry process_answer appends to the answer log.
LogEntry(question, answer) ==
    [question_id |-> question.id, user_answer |-> answer,
     correct_answer |-> question.correct_answer,
     is_correct |-> (answer = question.correct_answer),
     section |-> question.section,
     topic |-> InferTopic(question.section, question.keywords)]

\* process_answer that counts every answer as correct.
ProcessAnswerAllCorrect(tests, u, answer) ==
    IF ~Has(tests, u) THEN tests
    ELSE IF tests[u].current_question >= Len(tests[u].questions) THEN tests
    ELSE LET test == tests[u]
             current_question == test.questions[test.current_question + 1]
         IN  Put(tests, u,
                 [questions |-> test.questions,
                  current_question |-> test.current_question + 1,
                  score |-> test.score + 1,
                  answers |-> Append(test.answers, LogEntry(current_question, answer))])

\* process_answer
ProcessAnswer(tests, u, answer) ==
    IF ~Has(tests, u) THEN tests
    ELSE IF tests[u].current_question >= Len(tests[u].questions) THEN tests
    ELSE LET test == tests[u]
             current_question == test.questions[test.current_question + 1]
         IN  Put(tests, u,
                 [questions |-> test.questions,
                  current_question |-> test.current_question + 1,
                  score |-> IF answer = current_question.correct_answer
                            THEN test.score + 1 ELSE test.score,
                  answers |-> Append(test.answers, LogEntry(current_question, answer))])

\* Completion reported only past the last position.
IsTestCompletedLate(tests, u) ==
    Has(tests, u) /\ tests[u].current_question > Len(tests[u].questions)

\* is_test_completed
IsTestCompleted(tests, u) ==
    Has(tests, u) /\ tests[u].current_question >= Len(tests[u].questions)

\* The quotient taken without the test of the total.
TestPercentageUnguarded(score, total_questions) ==
    [num |-> score * 100, den |-> total_questions]

\* (score / total_questions) * 100 if total_questions > 0 else 0, kept
\* exact as a fraction num/den.
TestPercentage(score, total_questions) ==
    IF total_questions > 0 THEN [num |-> score * 100, den |-> total_questions]
    ELSE [num |-> 0, den |-> 1]

\* section_stats / topic_stats: per key, the entries and the correct ones.
StatsBy(answers, field) ==
    [k \in {answers[i][field] : i \in 1..Len(answers)} |->
        [total |-> Cardinality({i \in 1..Len(answers) : answers[i][field] = k}),
         correct |-> Cardinality({i \in 1..Len(answers) :
                                     answers[i][field] = k /\ answers[i].is_correct})]]

\* accuracy >= 0.7
Strengths(topic_stats) ==
    {t \in DOMAIN topic_stats :
        topic_stats[t].total > 0 /\ 10 * topic_stats[t].correct >= 7 * topic_stats[t].total}

\* Every topic that is not a strength counted as a weakness.
WeaknessesBelowStrength(topic_stats) ==
    {t \in DOMAIN topic_stats :
        /\ topic_stats[t].total > 0
        /\ 10 * topic_stats[t].correct < 7 * topic_stats[t].total}

\* accuracy <= 0.6 (and not a strength)
Weaknesses(topic_stats) ==
    {t \in DOMAIN topic_stats :
        /\ topic_stats[t].total > 0
        /\ 10 * topic_stats[t].correct < 7 * topic_stats[t].total
        /\ 10 * topic_stats[t].correct <= 6 * topic_stats[t].total}

\* The results dict finish_test builds from the session.
TestResults(test) ==
    [total_questions |-> Len(test.questions),
     score |-> test.score,
     percentage |-> TestPercentage(test.score, Len(test.questions)),
     answers |-> test.answers,
     section_stats |-> StatsBy(test.answers, "section"),
     topic_stats |-> StatsBy(test.answers, "topic"),
     strengths |-> Strengths(StatsBy(test.answers, "topic")),
     weaknesses |-> Weaknesses(StatsBy(test.answers, "topic"))]

\* The TestResult finish_test builds for the user record.
TestResult(test) ==
    [total_questions |-> Len(test.questions),
     correct_answers |-> test.score,
     score |-> test.score,
     percentage |-> TestPercentage(test.score, Len(test.questions)),
     answers |-> [i \in 1..Len(test.answers) |->
                     [question_id |-> test.answers[i].question_id,
                      user_answer |-> test.answers[i].user_answer,
                      correct_answer |-> test.answers[i].correct_answer,
                      is_correct |-> test.answers[i].is_correct,
                      section |-> test.answers[i].section]],
     strengths |-> Strengths(StatsBy(test.answers, "topic")),
     weaknesses |-> Weaknesses(StatsBy(test.answers, "topic")),
     section_stats |-> StatsBy(test.answers, "section")]

\* test_results[user_id].append(results)
AppendResults(all_results, u, results) ==
    Put(all_results, u,
        Append(IF Has(all_results, u) THEN all_results[u] ELSE << >>, results))

\* Finished tests the user has in the in-memory history.
TestsTaken(u) == IF Has(test_results, u) THEN Len(test_results[u]) ELSE 0

\* finish_test for a user with a session in tests: the results are appended
\* to the in-memory history; the user record gets the TestResult, but
\* save_user fails inside json.dump on its completed_at (to_dict converts
\* datetimes at the top level and one dict level down, not inside the
\* test_results list) and leaves the record file cut off, so the record
\* reads as a new user's afterwards; the history is written to
\* data/tests/user_<id>.json; the session is deleted.
FinishTest(tests, u) ==
    /\ TestsTaken(u) < MaxTests
    /\ test_results' = AppendResults(test_results, u, TestResults(tests[u]))
    /\ \E user \in {SaveUser(AddTestResult(GetUser(u), TestResult(tests[u])))} :
           /\ has_completed_test' =
                  [has_completed_test EXCEPT ![u] = user.has_completed_test]
           /\ record_test_results' =
                  [record_test_results EXCEPT ![u] = user.test_results]
    /\ test_file' = [test_file EXCEPT ![u] = "results"]
    /\ active_tests' = Del(tests, u)

\* The frame of the fixed-test handlers.
ExerciseFrame ==
    UNCHANGED <<active_exercises, user_answers, user_current_index, session_ids,
                uuid_count, pending, calc, fixed_test, chat_vars, rendered>>

\* The three choices test_command offers.
TestChoices == [buttons |-> <<"test_continue", "test_restart", "test_cancel">>]

\* The entry point starting a test whether or not one is running.
TestCommandRestarts(u) ==
    /\ DOMAIN pending = {}
    /\ active_tests' = StartTestForUser(active_tests, u)
    /\ reply' = Msg(u, "test_intro", {}, NoData)
    /\ UNCHANGED <<test_results, has_completed_test, record_test_results, test_file>>
    /\ ExerciseFrame

\* test_command
TestCommand(u) ==
    /\ DOMAIN pending = {}
    /\ reply' = IF Has(active_tests, u) THEN Msg(u, "test_choices", {}, TestChoices)
                ELSE Msg(u, "test_intro", {}, NoData)
    /\ UNCHANGED <<active_tests, test_results, has_completed_test, record_test_results, test_file>>
    /\ ExerciseFrame

\* send_question: the question, with its answer buttons, replaces the text
\* of the message whose button was pressed.
SentQuestion(question, pressed) == [question |-> question, replaces |-> pressed]

\* The message after a start: the first question, or the error texts.
StartReply(u, tests, pressed) ==
    IF ~CanStartTest THEN Msg(u, "start_failed", {"error_starting_test"}, NoData)
    ELSE IF GetCurrentQuestion(tests, u) = NoQuestion
         THEN Msg(u, "no_questions", {}, NoData)
         ELSE Msg(u, "question", {}, SentQuestion(GetCurrentQuestion(tests, u), pressed))

\* handle_test_start
HandleTestStart(u) ==
    /\ DOMAIN pending = {}
    /\ active_tests' = StartTestForUser(active_tests, u)
    /\ reply' = StartReply(u, active_tests', "start_test")
    /\ UNCHANGED <<test_results, has_completed_test, record_test_results, test_file>>
    /\ ExerciseFrame

\* The callback data of the answer buttons is test_answer_<letter> for
\* every question: a second delivery of the press recorded last for the
\* user carries the letter of the last entry of the answer log.
SamePressAgain(u, answer) ==
    /\ Has(active_tests, u)
    /\ Len(active_tests[u].answers) > 0
    /\ answer = active_tests[u].answers[Len(active_tests[u].answers)].user_answer

\* handle_test_answer
HandleTestAnswer(u, answer) ==
    /\ DOMAIN pending = {}
    /\ \E tests \in {ProcessAnswer(active_tests, u, answer)} :
           IF IsTestCompleted(tests, u)
           THEN /\ FinishTest(tests, u)
                /\ reply' = Msg(u, "test_results", {}, TestResults(tests[u]))
           ELSE /\ active_tests' = tests
                /\ reply' = IF GetCurrentQuestion(tests, u) = NoQuestion
                            THEN Msg(u, "none", {}, NoData)
                            ELSE Msg(u, "question", {},
                                     SentQuestion(GetCurrentQuestion(tests, u),
                                                  "test_answer"))
                /\ UNCHANGED <<test_results, has_completed_test, record_test_results, test_file>>
    /\ ExerciseFrame

\* handle_test_actions, test_continue: the current question again; with
\* no question left the test is finished, and with no session finish_test
\* returns None, which show_test_results cannot read (the error is logged
\* by handle_async_error after "summing up" was sent).
HandleTestContinue(u) ==
    IF GetCurrentQuestion(active_tests, u) # NoQuestion
    THEN /\ reply' = Msg(u, "question", {},
                         SentQuestion(GetCurrentQuestion(active_tests, u),
                                      "test_continue"))
         /\ UNCHANGED <<active_tests, test_results, has_completed_test, record_test_results, test_file>>
    ELSE IF Has(active_tests, u)
    THEN /\ FinishTest(active_tests, u)
         /\ reply' = Msg(u, "test_results", {}, TestResults(active_tests[u]))
    ELSE /\ reply' = Msg(u, "summing_up", {"handler_error"}, NoData)
         /\ UNCHANGED <<active_tests, test_results, has_completed_test, record_test_results, test_file>>

\* handle_test_actions, test_restart
HandleTestRestart(u) ==
    /\ active_tests' = StartTestForUser(Del(active_tests, u), u)
    /\ reply' = StartReply(u, active_tests', "test_restart")
    /\ UNCHANGED <<test_results, has_completed_test, record_test_results, test_file>>

\* The cancel choice finishing the running test.
HandleTestCancelFinishes(u) ==
    IF Has(active_tests, u)
    THEN /\ FinishTest(active_tests, u)
         /\ reply' = Msg(u, "test_cancelled", {}, NoData)
    ELSE /\ reply' = Msg(u, "test_cancelled", {}, NoData)
         /\ UNCHANGED <<active_tests, test_results, has_completed_test, record_test_results, test_file>>

\* handle_test_actions, test_cancel
HandleTestCancel(u) ==
    /\ active_tests' = Del(active_tests, u)
    /\ reply' = Msg(u, "test_cancelled", {}, NoData)
    /\ UNCHANGED <<test_results, has_completed_test, record_test_results, test_file>>

\* handle_test_actions
HandleTestActions(u, action) ==
    /\ DOMAIN pending = {}
    /\ CASE action = "test_continue" -> HandleTestContinue(u)
         [] action = "test_restart" -> HandleTestRestart(u)
         [] action = "test_cancel" -> HandleTestCancel(u)
    /\ ExerciseFrame

\* ---------------------------------------------------------- conversation

\* The length add_to_chat_history cuts a transcript to.
HistoryLimit == 20

\* The labels of the main menu buttons (without their pictograms).
MenuLabels ==
    {"Test", "Vocabulary", "Grammar", "Chat", "Motivate",
     "Get contact with a teacher", "Reset active exercises"}

\* Texts a user types.
FreeTexts == {"hello"}

\* An entry of a transcript; turn tells the conversational turn (the n-th
\* free text handled) that appended it.
Entry(role, content, turn) == [role |-> role, content |-> content, turn |-> turn]

\* add_to_chat_history that keeps the oldest entries.
AddToChatHistoryKeepsOldest(history, u, entry) ==
    LET all == Append(IF Has(history, u) THEN history[u] ELSE << >>, entry)
    IN  Put(history, u,
            IF Len(all) > HistoryLimit THEN SubSeq(all, 1, HistoryLimit) ELSE all)

\* add_to_chat_history with one list for all users.
AddToChatHistoryShared(history, u, entry) ==
    [x \in DOMAIN history \cup {u} |->
        Append(IF Has(history, x) THEN history[x] ELSE << >>, entry)]

\* add_to_chat_history
AddToChatHistory(history, u, entry) ==
    LET all == Append(IF Has(history, u) THEN history[u] ELSE << >>, entry)
    IN  Put(history, u,
            IF Len(all) > HistoryLimit
            THEN SubSeq(all, Len(all) - HistoryLimit + 1, Len(all))
            ELSE all)

\* get_chat_history
GetChatHistory(history, u) == IF Has(history, u) THEN history[u] ELSE << >>

\* clear_chat_history that leaves the transcript in place.
ClearChatHistoryKeeps(history, u) == history

\* clear_chat_history
ClearChatHistory(history, u) == Del(history, u)

\* context.user_data.get('mode', 'tutor') with the mode never read.
ModeOfAlwaysTutor(u) == "tutor"

\* context.user_data.get('mode', 'tutor')
ModeOf(u) == IF Has(user_data, u) THEN user_data[u].mode ELSE "tutor"

\* What generate_content returns to a conversation handler.
ChatReply(api) ==
    CASE api = "timeout" -> "service_unavailable"
      [] api = "api_error" -> "ai_service_error"
      [] api = "exception" -> "unexpected_error"
      [] OTHER -> "reply"

\* A call that returns a reply and a call that fails (the failures differ
\* in the fixed text returned).
ChatApis == {"ok", "timeout"}

NoRequest == [to |-> 0, prompt_type |-> "none", history |-> << >>, user_message |-> ""]

\* The frame of the conversation handlers.
SessionFrame ==
    UNCHANGED <<active_exercises, user_answers, user_current_index, session_ids,
                uuid_count, has_completed_test, record_test_results, test_file,
                active_tests, calc, fixed_test, test_results, rendered>>

\* handle_message on a text that is no menu label, up to the await of the
\* generator: the text is appended as a user entry, and the generator is
\* called with the prompt of the user's mode and the transcript without
\* its last entry next to the text.
HandleMessage(u, text) ==
    /\ DOMAIN pending = {}
    /\ text \notin MenuLabels
    /\ Len(turn_modes) < MaxMessages
    /\ \E entry \in {Entry("user", text, Len(turn_modes) + 1)} :
       \E history \in {AddToChatHistory(user_chat_history, u, entry)} :
           /\ user_chat_history' = history
           /\ appended' = [appended EXCEPT ![u] = Append(@, entry)]
           /\ llm_request' =
                  [to |-> u, prompt_type |-> ModeOf(u),
                   history |-> SubSeq(GetChatHistory(history, u), 1,
                                      Len(GetChatHistory(history, u)) - 1),
                   user_message |-> text]
    /\ turn_modes' = Append(turn_modes, ModeOf(u))
    /\ pending' = Put(pending, u, ModeOf(u))
    /\ reply' = Msg(u, IF ModeOf(u) = "chat" THEN "processing" ELSE "thinking", {}, NoData)
    /\ UNCHANGED user_data
    /\ SessionFrame

\* The generator call of handle_message returns: the reply is appended as
\* an assistant entry and sent.
ReplyReturns(u, api) ==
    /\ Has(pending, u)
    /\ pending[u] \in {"tutor", "chat"}
    /\ \E entry \in {Entry("assistant", ChatReply(api), Len(turn_modes))} :
           /\ user_chat_history' = AddToChatHistory(user_chat_history, u, entry)
           /\ appended' = [appended EXCEPT ![u] = Append(@, entry)]
           /\ reply' = Msg(u, "answer", {}, [text |-> entry.content])
    /\ pending' = Del(pending, u)
    /\ UNCHANGED <<user_data, llm_request, turn_modes>>
    /\ SessionFrame

\* chat_command handled while a generator call of the user is in flight.
ChatCommandDuringCall(u) ==
    /\ user_data' = Put(user_data, u, [mode |-> "chat"])
    /\ user_chat_history' = ClearChatHistory(user_chat_history, u)
    /\ appended' = [appended EXCEPT ![u] = << >>]
    /\ reply' = Msg(u, "chat_ready", {}, NoData)
    /\ UNCHANGED <<llm_request, turn_modes, pending>>
    /\ SessionFrame

\* chat_command; updates are handled one at a time (main.py:30), so none
\* is handled while a handler awaits the generator.
ChatCommand(u) ==
    /\ DOMAIN pending = {}
    /\ user_data' = Put(user_data, u, [mode |-> "chat"])
    /\ user_chat_history' = ClearChatHistory(user_chat_history, u)
    /\ appended' = [appended EXCEPT ![u] = << >>]
    /\ reply' = Msg(u, "chat_ready", {}, NoData)
    /\ UNCHANGED <<llm_request, turn_modes, pending>>
    /\ SessionFrame

\* motivate_command up to the await of the generator: the call carries the
\* prompt type and no text of the user.
MotivateCommand(u) ==
    /\ DOMAIN pending = {}
    /\ llm_request' = [to |-> u, prompt_type |-> "motivate", history |-> << >>,
                       user_message |-> ""]
    /\ pending' = Put(pending, u, "motivate")
    /\ reply' = Msg(u, "generating_motivation", {}, NoData)
    /\ UNCHANGED <<user_chat_history, user_data, appended, turn_modes>>
    /\ SessionFrame

\* The generator call of motivate_command returns.
MotivationReturns(u, api) ==
    /\ Has(pending, u)
    /\ pending[u] = "motivate"
    /\ pending' = Del(pending, u)
    /\ reply' = Msg(u, "motivation", {}, [text |-> ChatReply(api)])
    /\ UNCHANGED chat_vars
    /\ SessionFrame

\* teacher_command
TeacherCommand(u) ==
    /\ DOMAIN pending = {}
    /\ reply' = Msg(u, "teacher_info", {}, NoData)
    /\ UNCHANGED <<chat_vars, pending>>
    /\ SessionFrame

\* handle_buttons
HandleButtons(u, text) ==
    CASE text = "Test" -> TestCommand(u)
      [] text = "Vocabulary" -> VocabularyCommand(u)
      [] text = "Grammar" -> GrammarCommand(u)
      [] text = "Chat" -> ChatCommand(u)
      [] text = "Motivate" -> MotivateCommand(u)
      [] text = "Get contact with a teacher" -> TeacherCommand(u)
      [] text = "Reset active exercises" -> ResetExercisesCommand(u)
      [] OTHER -> FALSE

\* An inbound text: the menu labels go to handle_buttons, every other text
\* to handle_message.
TextMessage(u, text) ==
    IF text \in MenuLabels THEN HandleButtons(u, text) ELSE HandleMessage(u, text)

\* --------------------------------------------------------- specification

IdleCalc == [state |-> "idle", correct |-> 0, total |-> 0, summary |-> ScoreSummary(0, 0)]

NoReply == Msg(0, "none", {}, NoData)

\* Persisted records a process can start from: results on file with the
\* flag set, results on file with a stale flag, nothing on file.
StoredRecords ==
    {[flag |-> TRUE, file |-> "results"], [flag |-> FALSE, file |-> "results"],
     [flag |-> FALSE, file |-> "absent"]}

\* No transcript, no mode and no conversational call yet.
InitChat ==
    /\ user_chat_history = EmptyDict
    /\ user_data = EmptyDict
    /\ llm_request = NoRequest
    /\ appended = [u \in AllUsers |-> << >>]
    /\ turn_modes = << >>

\* The process starts with empty maps.
Init ==
    /\ active_exercises = EmptyDict
    /\ user_answers = EmptyDict
    /\ user_current_index = EmptyDict
    /\ session_ids = EmptyDict
    /\ uuid_count = 0
    /\ \E stored \in [AllUsers -> StoredRecords] :
           /\ has_completed_test = [u \in AllUsers |-> stored[u].flag]
           /\ record_test_results = [u \in AllUsers |-> << >>]
           /\ test_file = [u \in AllUsers |-> stored[u].file]
    /\ active_tests = EmptyDict
    /\ pending = EmptyDict
    /\ reply = NoReply
    /\ calc = IdleCalc
    /\ fixed_test = CreateDefaultTest
    /\ InitChat
    /\ test_results = EmptyDict
    /\ rendered = NoButtons

Next ==
    \E u \in AllUsers :
        \/ VocabularyCommand(u)
        \/ GrammarCommand(u)
        \/ \E outcome \in GenOutcomes : GeneratorReturns(u, outcome)
        \/ \E cb \in ArrivingCallbacks : HandleExerciseAnswer(u, cb)
        \/ HandleExerciseFinish(u)
        \/ ResetExercisesCommand(u)

Spec == Init /\ [][Next]_vars

\* The generator call is time-boxed (llm/service.py:38), so a pending call returns.
GeneratorStep == \E u \in AllUsers, outcome \in GenOutcomes : GeneratorReturns(u, outcome)

\* Sessions are started, dropped and finished; no answers arrive.
NextStart ==
    \E u \in AllUsers :
        \/ VocabularyCommand(u)
        \/ GrammarCommand(u)
        \/ \E outcome \in GenOutcomes : GeneratorReturns(u, outcome)
        \/ HandleExerciseFinish(u)
        \/ ResetExercisesCommand(u)

SpecStart == Init /\ [][NextStart]_vars /\ WF_vars(GeneratorStep)

\* ------------------------------------------------- scoring specification

\* The scoring function of finish_exercise_session applied to every pair
\* of counts up to MaxCount.
InitScore ==
    /\ active_exercises = EmptyDict
    /\ user_answers = EmptyDict
    /\ user_current_index = EmptyDict
    /\ session_ids = EmptyDict
    /\ uuid_count = 0
    /\ has_completed_test = [u \in AllUsers |-> TRUE]
    /\ record_test_results = [u \in AllUsers |-> << >>]
    /\ test_file = [u \in AllUsers |-> "results"]
    /\ active_tests = EmptyDict
    /\ pending = EmptyDict
    /\ reply = NoReply
    /\ fixed_test = CreateDefaultTest
    /\ InitChat
    /\ test_results = EmptyDict
    /\ rendered = NoButtons
    /\ \E total \in 0..MaxCount, correct \in 0..MaxCount :
           /\ correct <= total
           /\ calc = [state |-> "input", correct |-> correct, total |-> total,
                      summary |-> ScoreSummary(0, 0)]

ScoreStep ==
    /\ calc.state = "input"
    /\ calc' = [calc EXCEPT !.state = "output",
                            !.summary = ScoreSummary(calc.correct, calc.total)]
    /\ UNCHANGED <<active_exercises, user_answers, user_current_index, session_ids,
                   uuid_count, has_completed_test, record_test_results, test_file, active_tests, pending,
                   reply, fixed_test, chat_vars, test_results, rendered>>

SpecScore == InitScore /\ [][ScoreStep]_vars

\* ------------------------------------------------ end-to-end scenario

\* The generator outputs that are not JSON and hold no parseable array.
MalformedOutcomes ==
    {o \in GenOutcomes : o.api = "ok" /\ ~o.content.empty /\ ~LocateJson(o.content).ok}

InitScenario ==
    /\ active_exercises = EmptyDict
    /\ user_answers = EmptyDict
    /\ user_current_index = EmptyDict
    /\ session_ids = EmptyDict
    /\ uuid_count = 0
    /\ has_completed_test = [u \in AllUsers |-> TRUE]
    /\ record_test_results = [u \in AllUsers |-> << >>]
    /\ test_file = [u \in AllUsers |-> "results"]
    /\ active_tests = EmptyDict
    /\ pending = EmptyDict
    /\ reply = NoReply
    /\ calc = IdleCalc
    /\ fixed_test = CreateDefaultTest
    /\ InitChat
    /\ test_results = EmptyDict
    /\ rendered = NoButtons

\* The user opens a vocabulary session when none is running.
ScenarioStart == \E u \in AllUsers : ~Has(active_exercises, u) /\ VocabularyCommand(u)

ScenarioMalformed ==
    \E u \in AllUsers, outcome \in MalformedOutcomes : GeneratorReturns(u, outcome)

\* The user presses one of the four answer buttons of the exercise shown last.
ScenarioPress ==
    \E u \in AllUsers, letter \in OptionLetters :
        /\ reply.kind = "exercise"
        /\ reply.to = u
        /\ HandleExerciseAnswer(u, Callback(4, TRUE, reply.data.session,
                                            reply.data.index, letter))

NextScenario == ScenarioStart \/ ScenarioMalformed \/ ScenarioPress

SpecScenario ==
    /\ InitScenario
    /\ [][NextScenario]_vars
    /\ WF_vars(ScenarioMalformed)
    /\ WF_vars(ScenarioPress)

\* ------------------------------------------------ fixed test specification

\* The process starts with the bank its file holds and no test session.
InitTest ==
    /\ active_exercises = EmptyDict
    /\ user_answers = EmptyDict
    /\ user_current_index = EmptyDict
    /\ session_ids = EmptyDict
    /\ uuid_count = 0
    /\ \E stored \in [AllUsers -> StoredRecords] :
           /\ has_completed_test = [u \in AllUsers |-> stored[u].flag]
           /\ record_test_results = [u \in AllUsers |-> << >>]
           /\ test_file = [u \in AllUsers |-> stored[u].file]
    /\ active_tests = EmptyDict
    /\ pending = EmptyDict
    /\ reply = NoReply
    /\ calc = IdleCalc
    /\ fixed_test \in FixedTests
    /\ InitChat
    /\ test_results = EmptyDict
    /\ rendered = NoButtons

TestActions == {"test_continue", "test_restart", "test_cancel"}

\* The fixed-test handlers: the entry point, the start button, the answer
\* buttons and the three choices.
NextTest ==
    \E u \in AllUsers :
        \/ TestCommand(u)
        \/ HandleTestStart(u)
        \/ \E answer \in TestLetters : HandleTestAnswer(u, answer)
        \/ HandleTestActions(u, "test_continue")
        \/ HandleTestActions(u, "test_restart")
        \/ HandleTestActions(u, "test_cancel")

SpecTest == InitTest /\ [][NextTest]_vars

\* ------------------------------------------ test scoring specification

\* The percentage of finish_test applied to every score and bank length
\* up to MaxCount.
InitTestScore ==
    /\ active_exercises = EmptyDict
    /\ user_answers = EmptyDict
    /\ user_current_index = EmptyDict
    /\ session_ids = EmptyDict
    /\ uuid_count = 0
    /\ has_completed_test = [u \in AllUsers |-> FALSE]
    /\ record_test_results = [u \in AllUsers |-> << >>]
    /\ test_file = [u \in AllUsers |-> "absent"]
    /\ active_tests = EmptyDict
    /\ pending = EmptyDict
    /\ reply = NoReply
    /\ fixed_test = CreateDefaultTest
    /\ InitChat
    /\ test_results = EmptyDict
    /\ rendered = NoButtons
    /\ \E total \in 0..MaxCount, score \in 0..MaxCount :
           /\ score <= total
           /\ calc = [state |-> "test_input", correct |-> score, total |-> total,
                      summary |-> [percentage |-> TestPercentage(0, 0)]]

TestScoreStep ==
    /\ calc.state = "test_input"
    /\ calc' = [calc EXCEPT !.state = "test_output",
                            !.summary = [percentage |->
                                            TestPercentage(calc.correct, calc.total)]]
    /\ UNCHANGED <<active_exercises, user_answers, user_current_index, session_ids,
                   uuid_count, has_completed_test, record_test_results, test_file, active_tests, pending,
                   reply, fixed_test, chat_vars, test_results, rendered>>

SpecTestScore == InitTestScore /\ [][TestScoreStep]_vars

\* ------------------------------------------ topic rating specification

\* The strengths/weaknesses rule of finish_test applied to the statistics
\* of two topics: one with every count up to MaxCount, one with a single
\* answer.
InitTopic ==
    /\ active_exercises = EmptyDict
    /\ user_answers = EmptyDict
    /\ user_current_index = EmptyDict
    /\ session_ids = EmptyDict
    /\ uuid_count = 0
    /\ has_completed_test = [u \in AllUsers |-> FALSE]
    /\ record_test_results = [u \in AllUsers |-> << >>]
    /\ test_file = [u \in AllUsers |-> "absent"]
    /\ active_tests = EmptyDict
    /\ pending = EmptyDict
    /\ reply = NoReply
    /\ fixed_test = CreateDefaultTest
    /\ InitChat
    /\ test_results = EmptyDict
    /\ rendered = NoButtons
    /\ \E total \in 0..MaxCount, correct \in 0..MaxCount, other \in 0..1 :
           /\ correct <= total
           /\ calc = [state |-> "topic_input", correct |-> correct, total |-> total,
                      summary |-> [topic_stats |->
                                      [t \in {"Modals", "Articles"} |->
                                          IF t = "Modals"
                                          THEN [total |-> total, correct |-> correct]
                                          ELSE [total |-> 1, correct |-> other]],
                                   strengths |-> {}, weaknesses |-> {}]]

TopicStep ==
    /\ calc.state = "topic_input"
    /\ calc' = [calc EXCEPT !.state = "topic_output",
                            !.summary.strengths = Strengths(calc.summary.topic_stats),
                            !.summary.weaknesses = Weaknesses(calc.summary.topic_stats)]
    /\ UNCHANGED <<active_exercises, user_answers, user_current_index, session_ids,
                   uuid_count, has_completed_test, record_test_results, test_file, active_tests, pending,
                   reply, fixed_test, chat_vars, test_results, rendered>>

SpecTopic == InitTopic /\ [][TopicStep]_vars

\* ------------------------------------------------- the gated exercise start

\* Generator outcomes of a failed call (the session gets the fallback batch).
FailedOutcomes == {outcome \in GenOutcomes : outcome.api # "ok"}

\* The fixed-test handlers next to the gated exercise entry points.
NextGate ==
    \E u \in AllUsers :
        \/ TestCommand(u)
        \/ HandleTestStart(u)
        \/ \E answer \in TestLetters : HandleTestAnswer(u, answer)
        \/ HandleTestActions(u, "test_continue")
        \/ HandleTestActions(u, "test_restart")
        \/ HandleTestActions(u, "test_cancel")
        \/ VocabularyCommand(u)
        \/ GrammarCommand(u)
        \/ \E outcome \in FailedOutcomes : GeneratorReturns(u, outcome)

\* The bank is the default one of a single question.
SpecGate == Init /\ [][NextGate]_vars

\* ------------------------------------------------ the conversation handlers

\* Free texts and the chat-mode command, next to the generator's replies.
NextHistory ==
    \E u \in AllUsers :
        \/ \E text \in FreeTexts : TextMessage(u, text)
        \/ TextMessage(u, "Chat")
        \/ \E api \in ChatApis : ReplyReturns(u, api)

SpecHistory == Init /\ [][NextHistory]_vars

\* Every inbound text, next to the returns of the generator calls.
NextChat ==
    \E u \in AllUsers :
        \/ \E text \in MenuLabels \cup FreeTexts : TextMessage(u, text)
        \/ ReplyReturns(u, "ok")
        \/ MotivationReturns(u, "ok")
        \/ \E outcome \in FailedOutcomes : GeneratorReturns(u, outcome)

SpecChat == Init /\ [][NextChat]_vars

\* ------------------------------------------------------------- two users

\* Two users of the same process.
BothUsers == {1, 2}

\* The process starts with empty maps; each user has a record of their
\* own, with results on file and a flag the gate has yet to repair.
InitUsers ==
    /\ active_exercises = EmptyDict
    /\ user_answers = EmptyDict
    /\ user_current_index = EmptyDict
    /\ session_ids = EmptyDict
    /\ uuid_count = 0
    /\ has_completed_test = [u \in BothUsers |-> FALSE]
    /\ record_test_results = [u \in BothUsers |-> << >>]
    /\ test_file = [u \in BothUsers |-> "results"]
    /\ active_tests = EmptyDict
    /\ pending = EmptyDict
    /\ reply = NoReply
    /\ calc = IdleCalc
    /\ fixed_test = CreateDefaultTest
    /\ test_results = EmptyDict
    /\ rendered = [u \in BothUsers |-> [earlier |-> {}, current |-> {}, finish |-> {}]]
    /\ user_chat_history = EmptyDict
    /\ user_data = EmptyDict
    /\ llm_request = NoRequest
    /\ appended = [u \in BothUsers |-> << >>]
    /\ turn_modes = << >>

\* Presses of the A button of the first exercise of a session drawn so far.
PressedCallbacks ==
    {cb \in ArrivingCallbacks :
        cb.parts = 4 /\ cb.int_index /\ cb.session > 0 /\ cb.index = 0
        /\ cb.letter = "A"}

\* The updates of both users, handled one at a time in the order they
\* arrive: both start exercise sessions and the fixed test and write free
\* texts; the first user also answers, finishes, resets, cancels, restarts
\* and switches to the chat mode.
NextUsers ==
    \/ \E u \in BothUsers :
           \/ TextMessage(u, "Vocabulary")
           \/ \E text \in FreeTexts :
                  Len(turn_modes) < MaxSharedTurns /\ TextMessage(u, text)
           \/ ReplyReturns(u, "ok")
           \/ GeneratorReturns(u, [api |-> "timeout", content |-> EmptyText])
           \/ HandleTestStart(u)
    \/ \E u \in {1} :
           \/ \E text \in {"Test", "Chat", "Reset active exercises"} : TextMessage(u, text)
           \/ \E cb \in PressedCallbacks : HandleExerciseAnswer(u, cb)
           \/ HandleExerciseFinish(u)
           \/ HandleTestAnswer(u, "a")
           \/ \E action \in TestActions : HandleTestActions(u, action)

\* What the process holds for one user: the entries of the per-user maps
\* and the user's files.
UserState(u) ==
    [active_exercises |-> IF Has(active_exercises, u) THEN <<active_exercises[u]>> ELSE << >>,
     user_answers |-> IF Has(user_answers, u) THEN <<user_answers[u]>> ELSE << >>,
     user_current_index |->
         IF Has(user_current_index, u) THEN <<user_current_index[u]>> ELSE << >>,
     session_ids |-> IF Has(session_ids, u) THEN <<session_ids[u]>> ELSE << >>,
     active_tests |-> IF Has(active_tests, u) THEN <<active_tests[u]>> ELSE << >>,
     test_results |-> IF Has(test_results, u) THEN <<test_results[u]>> ELSE << >>,
     user_chat_history |->
         IF Has(user_chat_history, u) THEN <<user_chat_history[u]>> ELSE << >>,
     user_data |-> IF Has(user_data, u) THEN <<user_data[u]>> ELSE << >>,
     has_completed_test |-> has_completed_test[u],
     record_test_results |-> record_test_results[u],
     test_file |-> test_file[u]]

SpecUsers == InitUsers /\ [][NextUsers]_vars

\* -------------------------------------------------- topic rules on texts

\* Texts are sequences of characters.  str.lower() on one character (the
\* texts of the model are ASCII).
Lower(c) ==
    LET UpperCase == <<"A", "B", "C", "D", "E", "F", "G", "H", "I", "J", "K", "L", "M",
                       "N", "O", "P", "Q", "R", "S", "T", "U", "V", "W", "X", "Y", "Z">>
        LowerCase == <<"a", "b", "c", "d", "e", "f", "g", "h", "i", "j", "k", "l", "m",
                       "n", "o", "p", "q", "r", "s", "t", "u", "v", "w", "x", "y", "z">>
    IN  IF \E i \in 1..Len(UpperCase) : UpperCase[i] = c
        THEN LowerCase[CHOOSE i \in 1..Len(UpperCase) : UpperCase[i] = c]
        ELSE c

RECURSIVE JoinOptions(_)
\* ' '.join(options)
JoinOptions(options) ==
    IF Len(options) = 0 THEN << >>
    ELSE IF Len(options) = 1 THEN options[1]
    ELSE options[1] \o <<" ">> \o JoinOptions(Tail(options))

\* text = f"{question} {explanation} {' '.join(options)}".lower()
TopicText(question, explanation, options) ==
    LET joined == question \o <<" ">> \o explanation \o <<" ">> \o JoinOptions(options)
    IN  [i \in 1..Len(joined) |-> Lower(joined[i])]

\* k in text
Occurs(k, text) ==
    \E i \in 1..(Len(text) - Len(k) + 1) : SubSeq(text, i, i + Len(k) - 1) = k

\* any(k in text for k in [...])
AnyOccurs(keywords, text) == \E k \in keywords : Occurs(k, text)

\* The if statements of the grammar branch, in the order of the code.
GrammarRules ==
    <<[label |-> "Tenses: Past Perfect",
       keywords |->
           {<<"p", "a", "s", "t", " ", "p", "e", "r", "f", "e", "c", "t">>,
            <<"b", "y", " ", "t", "h", "e", " ", "t", "i", "m", "e">>,
            <<"h", "a", "d", " ">>}],
      [label |-> "Tenses: Future Continuous",
       keywords |->
           {<<"f", "u", "t", "u", "r", "e", " ", "c", "o", "n", "t", "i", "n", "u", "o", "u", "s">>,
            <<"w", "i", "l", "l", " ", "b", "e">>,
            <<"t", "h", "i", "s", " ", "t", "i", "m", "e", " ", "n", "e", "x", "t">>}],
      [label |-> "Tenses: Present Perfect",
       keywords |->
           {<<"p", "r", "e", "s", "e", "n", "t", " ", "p", "e", "r", "f", "e", "c", "t">>,
            <<"y", "e", "t">>,
            <<"h", "a", "v", "e", " ">>,
            <<"h", "a", "s", " ">>}],
      [label |-> "Conditionals (II)",
       keywords |->
           {<<"c", "o", "n", "d", "i", "t", "i", "o", "n", "a", "l">>,
            <<"i", "f", " ", "i">>,
            <<"w", "o", "u", "l", "d", " ">>}],
      [label |-> "Modals",
       keywords |->
           {<<"m", "u", "s", "t", "n", "'", "t">>,
            <<"m", "u", "s", "t", "n", "'">>,
            <<"m", "u", "s", "t", "n">>,
            <<"m", "u", "s", "t", " ", "n", "o", "t">>,
            <<"m", "u", "s", "t", " ">>,
            <<"s", "h", "o", "u", "l", "d", " ">>,
            <<"h", "a", "v", "e", " ", "t", "o">>,
            <<"m", "o", "d", "a", "l">>}],
      [label |-> "Reported Speech",
       keywords |->
           {<<"r", "e", "p", "o", "r", "t", "e", "d", " ", "s", "p", "e", "e", "c", "h">>,
            <<"a", "s", "k", "e", "d", " ", "m", "e", " ", "w", "h", "e", "r", "e">>,
            <<"i", "n", "d", "i", "r", "e", "c", "t", " ", "s", "p", "e", "e", "c", "h">>}],
      [label |-> "Articles",
       keywords |->
           {<<"a", "r", "t", "i", "c", "l", "e">>,
            <<" ", "t", "h", "e", " ">>,
            <<" ", "a", " ">>,
            <<" ", "a", "n", " ">>}],
      [label |-> "Passive Voice",
       keywords |->
           {<<"p", "a", "s", "s", "i", "v", "e">>,
            <<"w", "a", "s", " ", "r", "e", "a", "d">>,
            <<"i", "s", " ", "m", "a", "d", "e">>,
            <<"w", "e", "r", "e", " ">>}],
      [label |-> "Prepositions",
       keywords |->
           {<<"p", "r", "e", "p", "o", "s", "i", "t", "i", "o", "n">>,
            <<"i", "n", " ">>,
            <<"o", "n", " ">>,
            <<"a", "t", " ">>,
            <<"f", "o", "r", " ">>}]>>

\* The if statements of the vocabulary branch, in the order of the code.
VocabularyRules ==
    <<[label |-> "Vocabulary: Phrasal Verbs",
       keywords |->
           {<<"p", "h", "r", "a", "s", "a", "l">>,
            <<"l", "o", "o", "k", " ", "u", "p">>,
            <<"l", "o", "o", "k", " ", "a", "f", "t", "e", "r">>,
            <<"l", "o", "o", "k", " ", "i", "n", "t", "o">>,
            <<"l", "o", "o", "k", " ", "f", "o", "r">>}],
      [label |-> "Vocabulary: Collocations",
       keywords |->
           {<<"c", "o", "l", "l", "o", "c", "a", "t", "i", "o", "n">>,
            <<"m", "a", "k", "e", " ", "a", " ", "d", "e", "c", "i", "s", "i", "o", "n">>,
            <<"t", "a", "k", "e">>,
            <<"d", "o", " ">>}],
      [label |-> "Vocabulary: Word Formation",
       keywords |->
           {<<"w", "o", "r", "d", " ", "f", "o", "r", "m", "a", "t", "i", "o", "n">>,
            <<"-", "t", "i", "o", "n">>,
            <<"-", "m", "e", "n", "t">>,
            <<"p", "r", "e", "f", "i", "x">>,
            <<"s", "u", "f", "f", "i", "x">>}],
      [label |-> "Vocabulary: Synonyms/Antonyms",
       keywords |->
           {<<"s", "y", "n", "o", "n", "y", "m">>,
            <<"a", "n", "t", "o", "n", "y", "m">>,
            <<"c", "l", "o", "s", "e", "s", "t", " ", "i", "n", " ", "m", "e", "a", "n", "i", "n", "g">>}],
      [label |-> "Vocabulary: Idioms",
       keywords |->
           {<<"i", "d", "i", "o", "m">>,
            <<"o", "p", "e", "n", "-", "m", "i", "n", "d", "e", "d">>,
            <<"p", "i", "e", "c", "e", " ", "o", "f", " ", "c", "a", "k", "e">>}]>>

RECURSIVE FirstRuleFromEnd(_, _, _, _)
RECURSIVE FirstRule(_, _, _, _)
\* The chain of if statements walked from the last one to the first, so
\* that the last rule with a keyword in the text gives the label.
FirstRuleFromEnd(rules, text, other, i) ==
    IF i > Len(rules) THEN other
    ELSE IF AnyOccurs(rules[Len(rules) + 1 - i].keywords, text)
         THEN rules[Len(rules) + 1 - i].label
         ELSE FirstRuleFromEnd(rules, text, other, i + 1)

\* The chain of if statements from the i-th on: the first one whose any()
\* holds returns its label, the return after the chain gives other.
FirstRule(rules, text, other, i) ==
    IF i > Len(rules) THEN other
    ELSE IF AnyOccurs(rules[i].keywords, text) THEN rules[i].label
         ELSE FirstRule(rules, text, other, i + 1)

\* _infer_topic on the texts of a question
InferTopicOfText(section, question, explanation, options) ==
    LET text == TopicText(question, explanation, options)
    IN  IF section = "grammar" THEN FirstRule(GrammarRules, text, "Grammar: Other", 1)
        ELSE IF section = "vocabulary"
             THEN FirstRule(VocabularyRules, text, "Vocabulary: Other", 1)
             ELSE Capitalize(section)

\* Sections, questions, explanations and option lists of the calls checked.
TopicSections == {"grammar", "vocabulary", "reading"}

QuestionTexts ==
    {<<"B", "y", " ", "t", "h", "e", " ", "t", "i", "m", "e", " ", "w", "e", " ", "c", "a", "m", "e">>,
     <<"S", "h", "e", " ", "H", "A", "D", " ", "a", " ", "b", "o", "o", "k">>,
     <<"L", "o", "o", "k", " ", "u", "p", ",", " ", "t", "a", "k", "e", " ", "i", "t">>,
     <<"C", "h", "o", "o", "s", "e">>}

ExplanationTexts ==
    {<< >>,
     <<"M", "o", "d", "a", "l", " ", "v", "e", "r", "b">>}

OptionLists ==
    {<< >>,
     <<<<"i", "n">>, <<"o", "n">>>>}

\* The number of calls of _infer_topic followed.
MaxCalls == 2

\* One call of _infer_topic and what it returned.
TopicCall(section, question, explanation, options) ==
    [section |-> section, question |-> question, explanation |-> explanation,
     options |-> options,
     topic |-> InferTopicOfText(section, question, explanation, options)]

InitInfer ==
    /\ active_exercises = EmptyDict
    /\ user_answers = EmptyDict
    /\ user_current_index = EmptyDict
    /\ session_ids = EmptyDict
    /\ uuid_count = 0
    /\ has_completed_test = [u \in AllUsers |-> FALSE]
    /\ record_test_results = [u \in AllUsers |-> << >>]
    /\ test_file = [u \in AllUsers |-> "absent"]
    /\ active_tests = EmptyDict
    /\ pending = EmptyDict
    /\ reply = NoReply
    /\ fixed_test = CreateDefaultTest
    /\ InitChat
    /\ test_results = EmptyDict
    /\ rendered = NoButtons
    /\ calc = [state |-> "infer", calls |-> << >>]

\* process_answer calls _infer_topic on the texts of a question.
InferCall ==
    /\ calc.state = "infer"
    /\ Len(calc.calls) < MaxCalls
    /\ \E section \in TopicSections, question \in QuestionTexts,
          explanation \in ExplanationTexts, options \in OptionLists :
           calc' = [calc EXCEPT !.calls =
                       Append(@, TopicCall(section, question, explanation, options))]
    /\ UNCHANGED <<active_exercises, user_answers, user_current_index, session_ids,
                   uuid_count, has_completed_test, record_test_results, test_file,
                   active_tests, pending, reply, fixed_test, chat_vars, test_results,
                   rendered>>

SpecInfer == InitInfer /\ [][InferCall]_vars

\* --------------------------------------------------------------- claims

\* C1: an answer callback whose session prefix differs from the prefix of
\* the user's current token is rejected and changes none of the user's
\* items, answers, cursor and session token, whether or not the user has a
\* session or a token.
C1_StaleCallbackChangesNothing ==
    [][\A u \in AllUsers : \A cb \in ArrivingCallbacks :
          (/\ cb.parts = 4
           /\ cb.int_index
           /\ (~Has(session_ids, u) \/ cb.session # ShortOf(session_ids[u]))
           /\ HandleExerciseAnswer(u, cb))
          => /\ reply'.kind = "stale_session"
             /\ UNCHANGED <<active_exercises, user_answers, user_current_index,
                            session_ids>>]_vars

\* C2: within a session an answer event for an index that already has a
\* stored answer, with the same or another letter, is dropped as a
\* duplicate: the stored letters, the cursor, the items and the token stay
\* and nothing is shown; an answer event for an index of the session that
\* has no stored answer yet is the one that changes state.  (AnswerOutcome
\* is what HandleExerciseAnswer installs.)
C2_OnlyFirstAnswerCounts ==
    \A u \in AllUsers : \A cb \in ArrivingCallbacks :
        (/\ DOMAIN pending = {}
         /\ cb.parts = 4
         /\ cb.int_index
         /\ Has(session_ids, u)
         /\ cb.session = ShortOf(session_ids[u])
         /\ Has(active_exercises, u)
         /\ Has(user_answers, u)
         /\ cb.index >= 0
         /\ cb.index < Len(active_exercises[u]))
        => \E out \in {AnswerOutcome(u, cb)} :
               IF \E key \in DOMAIN user_answers[u] : key[3] = cb.index
               THEN /\ out.active = active_exercises
                    /\ out.answers = user_answers
                    /\ out.index = user_current_index
                    /\ out.sids = session_ids
                    /\ out.msg.kind = "none"
                    /\ out.msg.log = {"duplicate_ignored"}
               ELSE /\ out.msg.kind \in {"exercise", "results"}
                    /\ "answer_submitted" \in out.msg.log
                    /\ out.msg.kind = "exercise" =>
                          /\ \E key \in DOMAIN out.answers[u] :
                                 key[3] = cb.index /\ out.answers[u][key] = cb.letter
                          /\ \A key \in DOMAIN user_answers[u] :
                                 out.answers[u][key] = user_answers[u][key]

\* C2 happens: a repeated answer has just been dropped while the session goes on.
C2_DuplicateDropped ==
    /\ reply.kind = "none"
    /\ reply.log = {"duplicate_ignored"}
    /\ \E u \in AllUsers : Has(user_answers, u) /\ user_answers[u] # EmptyDict

\* C3: with the current token, an answer event whose index lies outside
\* [0, len(items)), below 0 or at least len(items), is rejected as out of
\* range, stores no answer and changes no session state.
C3_IndexOutsideRangeRejected ==
    [][\A u \in AllUsers : \A cb \in ArrivingCallbacks :
          (/\ cb.parts = 4
           /\ cb.int_index
           /\ Has(session_ids, u)
           /\ cb.session = ShortOf(session_ids[u])
           /\ Has(active_exercises, u)
           /\ (cb.index < 0 \/ cb.index >= Len(active_exercises[u]))
           /\ HandleExerciseAnswer(u, cb))
          => /\ reply'.kind = "out_of_range"
             /\ UNCHANGED <<active_exercises, user_answers, user_current_index,
                            session_ids>>]_vars

\* C4: every batch installed as a user's session has exactly 5 items, each
\* with exactly 4 options and a correct option among A, B, C, D.
C4_InstalledBatchIsFiveValidItems ==
    \A u \in DOMAIN active_exercises :
        /\ Len(active_exercises[u]) = 5
        /\ \A i \in 1..Len(active_exercises[u]) :
               /\ active_exercises[u][i].options = 4
               /\ active_exercises[u][i].correct_answer \in {"A", "B", "C", "D"}

\* C5: when the generator's text violates the output contract (it is
\* empty, it holds no JSON, what it holds is not an array of objects, some
\* element has an option count other than 4 or a letter that does not
\* normalise to A-D), the session installed is exactly the fallback batch
\* of the subject.
C5_ContractViolationGivesFallback ==
    [][\A u \in AllUsers : \A outcome \in GenOutcomes :
          (/\ outcome.api = "ok"
           /\ Has(pending, u)
           /\ LET text == outcome.content
                  located == LocateJson(text)
                  items == located.val.items
              IN  \/ text.empty
                  \/ ~located.ok
                  \/ located.val.type # "list"
                  \/ \E i \in 1..Len(items) :
                         \/ ~items[i].isdict
                         \/ items[i].options # 4
                         \/ NormalizeCorrect(items[i].correct_answer)
                                \notin {"A", "B", "C", "D"}
           /\ GeneratorReturns(u, outcome))
          => /\ Len(active_exercises'[u]) = 5
             /\ \A k \in 1..5 :
                    active_exercises'[u][k].exercise_id = <<pending[u], "fallback", k>>]_vars

\* C6: when the generator call times out or fails in transport, the start
\* of the session does not raise and does not wait forever: the pending
\* call returns, the session installed is the non-empty fallback batch of
\* the subject, as for a malformed response, and its first item is shown.
C6_GeneratorFailureFallsBack ==
    /\ \A u \in AllUsers : Has(pending, u) ~> ~Has(pending, u)
    /\ [][\A u \in AllUsers :
             \A outcome \in {o \in GenOutcomes :
                                o.api \in {"timeout", "api_error", "exception"}} :
             (Has(pending, u) /\ GeneratorReturns(u, outcome))
             => /\ Len(active_exercises'[u]) = 5
                /\ \A k \in 1..5 :
                       active_exercises'[u][k].exercise_id = <<pending[u], "fallback", k>>
                /\ \E malformed \in MalformedOutcomes :
                       active_exercises'[u]
                           = GenerateExercises(pending[u], u, malformed).exercises
                /\ user_answers'[u] = EmptyDict
                /\ reply'.kind = "exercise"
                /\ reply'.data.index = 0]_vars

\* C6 happens: a session has just been installed after the call timed out.
C6_InstalledAfterTimeout ==
    /\ reply.kind = "exercise"
    /\ "gpt_timeout" \in reply.log
    /\ \E u \in AllUsers : Has(active_exercises, u) /\ Len(active_exercises[u]) = 5

\* C7: a user with a completed test who starts a vocabulary session while
\* the generator returns malformed output gets the 5 fallback items, and
\* pressing an answer button of each shown item, positions 0 to 4 in
\* order, ends the session with a results report of 5 questions.
C7_MalformedOutputScenarioCompletes ==
    /\ [](\A u \in AllUsers : Has(active_exercises, u) =>
             /\ Len(active_exercises[u]) = 5
             /\ \A k \in 1..5 :
                    active_exercises[u][k].exercise_id = <<"vocabulary", "fallback", k>>)
    /\ [](reply.kind = "exercise" =>
             /\ reply.data.total = 5
             /\ reply.data.index = Cardinality(DOMAIN user_answers[reply.to]))
    /\ \A u \in AllUsers :
           Has(pending, u) ~>
               (/\ reply.to = u
                /\ reply.kind = "results"
                /\ reply.data.total_questions = 5
                /\ ~Has(active_exercises, u))

\* C7 happens: the report of a five-item session has been delivered.
C7_ReportDelivered ==
    /\ reply.kind = "results"
    /\ reply.data.total_questions = 5
    /\ Len(reply.data.results) = 5

\* C8: in the results of a finished session an item is marked correct
\* exactly when the letter accepted for its position equals its correct
\* option, compared without case, and correct_answers counts those items,
\* for fallback batches and generated batches alike.  (accepted maps a
\* position to the letter stored for it.)
C8_MarksFollowAcceptedLetters ==
    [][LET AcceptedByPosition(answers) ==
               [p \in {key[3] : key \in DOMAIN answers} |->
                   answers[CHOOSE key \in DOMAIN answers : key[3] = p]]
           MarksFollowAccepted(exercises, accepted, report) ==
               LET right == {p \in 0..(Len(exercises) - 1) :
                                /\ p \in DOMAIN accepted
                                /\ Upper(accepted[p])
                                       = Upper(exercises[p + 1].correct_answer)}
               IN  /\ \A p \in 0..(Len(exercises) - 1) :
                          report.results[p + 1].is_correct <=> (p \in right)
                   /\ report.correct_answers = Cardinality(right)
       IN  \A u \in AllUsers :
               /\ (Has(active_exercises, u) /\ Has(user_answers, u)
                       /\ HandleExerciseFinish(u))
                  => MarksFollowAccepted(active_exercises[u],
                                         AcceptedByPosition(user_answers[u]),
                                         reply'.data)
               /\ \A cb \in ArrivingCallbacks :
                      (/\ Has(active_exercises, u)
                       /\ Has(user_answers, u)
                       /\ HandleExerciseAnswer(u, cb)
                       /\ reply'.kind = "results")
                      => MarksFollowAccepted(
                             active_exercises[u],
                             Put(AcceptedByPosition(user_answers[u]), cb.index,
                                 cb.letter),
                             reply'.data)]_vars

\* C9: for c correct answers out of t items the reported percentage is
\* 100*c/t, and 0 when t = 0; for a session of t >= 1 items the tier is the
\* top one when 100*c >= 80*t, the second when 60*t <= 100*c < 80*t, the
\* third when 40*t <= 100*c < 60*t and the lowest otherwise.
C9_PercentageAndTier ==
    calc.state = "output" =>
        LET c == calc.correct
            t == calc.total
            out == calc.summary
        IN  /\ out.total_questions = t
            /\ out.correct_answers = c
            /\ out.percentage.den > 0
            /\ t > 0 => out.percentage.num * t = 100 * c * out.percentage.den
            /\ t = 0 => out.percentage.num = 0
            /\ t > 0 =>
                  /\ (100 * c >= 80 * t) <=> (out.level = "excellent")
                  /\ (60 * t <= 100 * c /\ 100 * c < 80 * t) <=> (out.level = "good")
                  /\ (40 * t <= 100 * c /\ 100 * c < 60 * t) <=> (out.level = "fair")
                  /\ (100 * c < 40 * t) <=> (out.level = "needs_improvement")

\* C9 happens: a score exactly on the 80 percent boundary has been reported.
C9_BoundaryScoreReported ==
    /\ calc.state = "output"
    /\ calc.total = 5
    /\ calc.correct = 4
    /\ calc.summary.level = "excellent"

\* C10: exercise_finish for a user with no active session reports the
\* no-session error, never a results record, and leaves the user's items,
\* answers, cursor and token as they were; so does a second exercise_finish
\* after the session has been finished.
C10_FinishWithoutSessionIsError ==
    /\ [](\A u \in AllUsers : ~Has(active_exercises, u) =>
             FinishExerciseSession(active_exercises, user_answers, u)
                 = [error |-> "No active exercise session"])
    /\ [][\A u \in AllUsers :
             (~Has(active_exercises, u) /\ HandleExerciseFinish(u))
             => /\ reply'.kind = "finish_error"
                /\ UNCHANGED <<active_exercises, user_answers, user_current_index,
                               session_ids>>]_vars
    /\ [][\A u \in AllUsers :
             (reply.kind = "results" /\ reply.to = u /\ HandleExerciseFinish(u))
             => reply'.kind = "finish_error"]_vars

\* C10 happens: exercise_finish has just been refused after a session was
\* started and finished.
C10_FinishRefusedAfterFinish ==
    /\ reply.kind = "finish_error"
    /\ uuid_count > 0
    /\ session_ids = EmptyDict
    /\ active_exercises = EmptyDict

\* C11: after an exercise session ends, by completion (the results are
\* reported) or by the explicit reset (the reset is acknowledged), the user
\* has no entry in the items map, the answers map and the token map.
C11_EndedSessionLeavesNoEntry ==
    \A u \in AllUsers :
        (reply.to = u /\ reply.kind \in {"results", "reset_done"})
        => /\ ~Has(active_exercises, u)
           /\ ~Has(user_answers, u)
           /\ ~Has(session_ids, u)

\* C12: when start_exercise_session completes for a user who had an
\* exercise session before, the user's items are the batch just produced
\* (items of the requested subject, as many as the first message
\* announces, nothing else), the answers map is empty, and the session
\* token is a new one: it differs from the token the user had when the
\* start began and no button of an earlier batch carries its prefix.
C12_StartReplacesPreviousSession ==
    [][\A u \in AllUsers :
          /\ (~Has(pending, u) /\ Has(pending', u) /\ Has(session_ids, u))
             => session_ids'[u] # session_ids[u]
          /\ (Has(pending, u) /\ ~Has(pending', u) /\ rendered[u].current # {})
             => /\ Has(active_exercises', u)
                /\ Len(active_exercises'[u]) > 0
                /\ \A i \in 1..Len(active_exercises'[u]) :
                       active_exercises'[u][i].subject = pending[u]
                /\ reply'.kind = "exercise"
                /\ reply'.data.total = Len(active_exercises'[u])
                /\ user_answers'[u] = EmptyDict
                /\ Has(session_ids', u)
                /\ session_ids'[u] = session_ids[u]
                /\ ~OnEarlierButton(u, ShortOf(session_ids'[u]))
                /\ ~OnCurrentButton(u, ShortOf(session_ids'[u]))]_vars

\* C12 witness: a second batch was installed for a user and its first
\* exercise is on screen with no answer stored.
C12_SecondSessionInstalled ==
    \E u \in AllUsers :
        /\ rendered[u].earlier # {}
        /\ Has(active_exercises, u)
        /\ Has(user_answers, u)
        /\ user_answers[u] = EmptyDict
        /\ reply.kind = "exercise"
        /\ reply.data.index = 0

C14_RestartGivesFreshSession ==
    [][\A u \in AllUsers :
          (Has(active_tests, u) /\ HandleTestActions(u, "test_restart"))
          => /\ Has(active_tests', u)
             /\ active_tests'[u].questions = fixed_test.questions
             /\ active_tests'[u].current_question = 0
             /\ active_tests'[u].score = 0
             /\ active_tests'[u].answers = << >>
             /\ Len(fixed_test.questions) > 0
                => /\ reply'.kind = "question"
                   /\ reply'.data.question = fixed_test.questions[1]]_vars

\* C14 witness: the restart button was pressed and the user is at the
\* first question of a bank of two with nothing logged.
C14_RestartedAtFirstQuestion ==
    \E u \in AllUsers :
        /\ reply.kind = "question"
        /\ reply.data.replaces = "test_restart"
        /\ Has(active_tests, u)
        /\ Len(active_tests[u].questions) = 2
        /\ active_tests[u].current_question = 0
        /\ active_tests[u].answers = << >>

\* C15: the test entry point, invoked while the user has a fixed-test
\* session, does not restart it: the session (cursor, score, answer log,
\* questions) is unchanged, no result is produced, and the user is
\* offered the three choices resume, restart and cancel.
C15_EntryPointKeepsRunningTest ==
    [][\A u \in AllUsers :
          (Has(active_tests, u) /\ TestCommand(u))
          => /\ Has(active_tests', u)
             /\ active_tests'[u].current_question = active_tests[u].current_question
             /\ active_tests'[u].score = active_tests[u].score
             /\ active_tests'[u].answers = active_tests[u].answers
             /\ active_tests'[u].questions = active_tests[u].questions
             /\ UNCHANGED <<test_results, has_completed_test, test_file>>
             /\ reply'.kind = "test_choices"
             /\ reply'.data.buttons = <<"test_continue", "test_restart", "test_cancel">>]_vars

\* C15 witness: the three choices were offered to a user whose session has
\* an answer logged.
C15_ChoicesOfferedMidTest ==
    \E u \in AllUsers :
        /\ reply.kind = "test_choices"
        /\ Has(active_tests, u)
        /\ active_tests[u].current_question > 0
        /\ Len(active_tests[u].answers) > 0

\* C16: the cancel choice removes the user's fixed-test session and
\* produces no results: the in-memory result history and the persisted
\* history file are unchanged, has_completed_test keeps its value, the
\* cancellation is acknowledged, and afterwards the user has no active
\* test.
C16_CancelDropsSessionWithoutResults ==
    [][\A u \in AllUsers :
          HandleTestActions(u, "test_cancel")
          => /\ ~Has(active_tests', u)
             /\ test_results' = test_results
             /\ test_file' = test_file
             /\ has_completed_test' = has_completed_test
             /\ reply'.kind = "test_cancelled"]_vars

\* C16 witness: a cancellation was acknowledged, the user has no session
\* and no result was ever produced or stored for the user.
C16_CancelledWithoutResults ==
    \E u \in AllUsers :
        /\ reply.kind = "test_cancelled"
        /\ ~Has(active_tests, u)
        /\ TestsTaken(u) = 0
        /\ test_file[u] = "absent"
        /\ ~has_completed_test[u]

\* C17: in every reachable state every fixed-test session has
\* 0 <= cursor <= len(items); is_test_completed is true exactly when
\* cursor = len(items); get_current_question returns the item at position
\* cursor when cursor < len(items) and none when cursor = len(items).
C17_CursorWithinBank ==
    \A u \in DOMAIN active_tests :
        LET cursor == active_tests[u].current_question
            items == active_tests[u].questions
        IN  /\ 0 <= cursor
            /\ cursor <= Len(items)
            /\ IsTestCompleted(active_tests, u) <=> (cursor = Len(items))
            /\ cursor < Len(items)
               => GetCurrentQuestion(active_tests, u) = items[cursor + 1]
            /\ cursor = Len(items)
               => GetCurrentQuestion(active_tests, u) = NoQuestion

\* C17 witness: a session in the middle of a bank of two, its second
\* question being the current one.
C17_SessionAtSecondQuestion ==
    \E u \in DOMAIN active_tests :
        /\ Len(active_tests[u].questions) = 2
        /\ active_tests[u].current_question = 1
        /\ GetCurrentQuestion(active_tests, u) = active_tests[u].questions[2]
        /\ ~IsTestCompleted(active_tests, u)

\* C18: a fixed-test answer event that arrives when the user has no test
\* session, or when the session's cursor equals len(items), is a no-op:
\* no session changes (cursor, score and answer log included), no result
\* is added to the in-memory or persisted history and has_completed_test
\* keeps its value.
C18_LateAnswerIsNoOp ==
    [][\A u \in AllUsers : \A answer \in TestLetters :
          (/\ \/ ~Has(active_tests, u)
              \/ active_tests[u].current_question = Len(active_tests[u].questions)
           /\ HandleTestAnswer(u, answer))
          => UNCHANGED <<active_tests, test_results, test_file, has_completed_test>>]_vars

\* C19: whenever a fixed test is finished after the user has answered
\* every question, in the results (those stored in the history and those
\* sent to the user) the log entries marked correct plus the entries
\* marked incorrect number total_questions, the score is the number of
\* entries marked correct, and the percentage is the one of exactly that
\* score and total (percentage * total = 100 * score).
C19_ResultsAgreeWithAnswerLog ==
    LET Marked(r, flag) == Cardinality({i \in 1..Len(r.answers) :
                                           r.answers[i].is_correct = flag})
        Consistent(r) ==
            Len(r.answers) = r.total_questions
            => /\ Marked(r, TRUE) + Marked(r, FALSE) = r.total_questions
               /\ r.score = Marked(r, TRUE)
               /\ r.percentage.den > 0
               /\ r.percentage.num * r.total_questions
                      = 100 * Marked(r, TRUE) * r.percentage.den
    IN  /\ \A u \in DOMAIN test_results :
               \A i \in 1..Len(test_results[u]) :
                   /\ Len(test_results[u][i].answers) = test_results[u][i].total_questions
                   /\ Consistent(test_results[u][i])
        /\ reply.kind = "test_results" => Consistent(reply.data)

\* C19 witness: the results of a test of two questions, one answered
\* correctly and one not, were sent and stored.
C19_MixedResultsReported ==
    \E u \in DOMAIN test_results :
        /\ reply.kind = "test_results"
        /\ reply.data.total_questions = 2
        /\ Len(reply.data.answers) = 2
        /\ reply.data.score = 1
        /\ reply.data = test_results[u][Len(test_results[u])]

\* C20: finish_test reports percentage = 100 * correct_answers /
\* total_questions whenever total_questions > 0, and reports 0, the
\* quotient not being taken (no zero denominator), when total_questions = 0.
C20_TestPercentage ==
    calc.state = "test_output"
    => LET p == calc.summary.percentage
       IN  /\ p.den > 0
           /\ calc.total > 0 => p.num * calc.total = 100 * calc.correct * p.den
           /\ calc.total = 0 => p.num = 0

\* C20 witness: the percentage of a test without questions was computed
\* and is 0.
C20_EmptyTestScoresZero ==
    /\ calc.state = "test_output"
    /\ calc.total = 0
    /\ calc.summary.percentage.num = 0

\* C21: in the results of finish_test, for every topic with c correct
\* answers out of t > 0 logged answers: the topic is in strengths exactly
\* when 10*c >= 7*t, in weaknesses exactly when 10*c <= 6*t, in neither
\* list when 6*t < 10*c < 7*t, and never in both lists.
C21_StrengthsAndWeaknesses ==
    calc.state = "topic_output"
    => \A topic \in DOMAIN calc.summary.topic_stats :
           LET c == calc.summary.topic_stats[topic].correct
               t == calc.summary.topic_stats[topic].total
           IN  t > 0
               => /\ (topic \in calc.summary.strengths) <=> (10 * c >= 7 * t)
                  /\ (topic \in calc.summary.weaknesses) <=> (10 * c <= 6 * t)
                  /\ (6 * t < 10 * c /\ 10 * c < 7 * t)
                     => /\ topic \notin calc.summary.strengths
                        /\ topic \notin calc.summary.weaknesses
                  /\ ~(/\ topic \in calc.summary.strengths
                       /\ topic \in calc.summary.weaknesses)

\* C21 witness: a topic with 2 correct answers of 3 was rated and is in
\* neither list, next to a topic that is a strength.
C21_TopicInTheBand ==
    /\ calc.state = "topic_output"
    /\ calc.correct = 2
    /\ calc.total = 3
    /\ "Modals" \notin calc.summary.strengths \cup calc.summary.weaknesses
    /\ "Articles" \in calc.summary.strengths

\* C22: after finish_test on a user with a running fixed test, the user has
\* no running test, has_completed_test is true, and the user record's
\* test_results is the previous sequence followed by exactly one new
\* TestResult.
C22_FinishTestUpdatesRecord ==
    [][\A u \in AllUsers :
          (/\ Has(active_tests, u)
           /\ Has(test_results', u)
           /\ Len(test_results'[u]) = TestsTaken(u) + 1)
          => /\ ~Has(active_tests', u)
             /\ has_completed_test'[u]
             /\ Len(record_test_results'[u]) = Len(record_test_results[u]) + 1
             /\ SubSeq(record_test_results'[u], 1, Len(record_test_results[u]))
                    = record_test_results[u]]_vars

\* C23: when a user without the flag and without a results file invokes the
\* vocabulary or grammar entry point, no exercise session, answers map,
\* cursor or session token of the user is created or changed, the
\* generator is not called, the record is left alone and the user gets the
\* message that sends them to the diagnostic test (the one about the
\* running test when they are in the middle of it).
C23_UntestedUserIsRedirected ==
    [][\A u \in AllUsers :
          (/\ ~has_completed_test[u]
           /\ test_file[u] = "absent"
           /\ (VocabularyCommand(u) \/ GrammarCommand(u)))
          => /\ UNCHANGED <<active_exercises, user_answers, user_current_index,
                            session_ids, uuid_count, pending,
                            has_completed_test, record_test_results, test_file>>
             /\ reply'.to = u
             /\ reply'.kind = IF Has(active_tests, u) THEN "finish_test_first"
                              ELSE "take_test_first"]_vars

\* An untested user was sent to the diagnostic test.
C23_RedirectSent ==
    \E u \in AllUsers :
        /\ ~has_completed_test[u]
        /\ test_file[u] = "absent"
        /\ ~Has(active_tests, u)
        /\ reply.to = u
        /\ reply.kind = "take_test_first"
        /\ ~Has(session_ids, u)
        /\ ~Has(pending, u)

C25_FlagMatchesRecord ==
    [][(\A u \in AllUsers : has_completed_test[u] <=> Len(record_test_results[u]) > 0)
       => (\A u \in AllUsers :
               has_completed_test'[u] <=> Len(record_test_results'[u]) > 0)]_vars

\* C26: a second delivery of the answer button press recorded last for a
\* user's running test records nothing more: the answer log, the cursor
\* and the score of the session stay as the first delivery left them.
C26_SecondDeliveryRecordsNothing ==
    [][\A u \in AllUsers, answer \in TestLetters :
          (SamePressAgain(u, answer) /\ HandleTestAnswer(u, answer))
          => /\ Has(test_results', u) = Has(test_results, u)
             /\ TestsTaken(u)' = TestsTaken(u)
             /\ Has(active_tests', u)
             /\ active_tests'[u].answers = active_tests[u].answers
             /\ active_tests'[u].current_question = active_tests[u].current_question
             /\ active_tests'[u].score = active_tests[u].score]_vars

\* C27: each user's transcript has at most 20 entries and is, in order,
\* the last min(n, 20) of the n entries appended for the user since the
\* most recent clear, so that the oldest entries are the ones dropped.
C27_TranscriptIsLastTwenty ==
    \A u \in AllUsers :
        LET transcript == GetChatHistory(user_chat_history, u)
            n == Len(appended[u])
            kept == IF n < 20 THEN n ELSE 20
        IN  /\ Len(transcript) <= 20
            /\ Len(transcript) = kept
            /\ transcript = SubSeq(appended[u], n - kept + 1, n)

\* A transcript that lost its oldest entry.
C27_OldestEntryEvicted ==
    \E u \in AllUsers :
        /\ Len(appended[u]) > 20
        /\ Len(GetChatHistory(user_chat_history, u)) = 20
        /\ GetChatHistory(user_chat_history, u)[1] = appended[u][Len(appended[u]) - 19]

\* C28: right after the chat-mode command is handled for a user, the
\* user's mode is chat and the user's transcript is empty, whatever it
\* held before.
C28_ChatCommandStartsClean ==
    [][\A u \in AllUsers :
          ChatCommand(u)
          => /\ ModeOf(u)' = "chat"
             /\ GetChatHistory(user_chat_history, u)' = << >>]_vars

\* The chat-mode command was handled after tutor turns had filled the
\* transcript.
C28_TutorTranscriptCleared ==
    \E u \in AllUsers :
        /\ reply.to = u
        /\ reply.kind = "chat_ready"
        /\ Len(turn_modes) > 0
        /\ turn_modes[Len(turn_modes)] = "tutor"
        /\ ModeOf(u) = "chat"
        /\ ~Has(user_chat_history, u)

C31_OtherUsersUntouched ==
    [][\A b \in BothUsers :
          UserState(b)' # UserState(b) => reply'.to = b]_vars

\* The first user was served while both users had an exercise session and
\* a transcript and the second user was in the middle of the fixed test.
C31_BothUsersBusy ==
    /\ reply.to = 1
    /\ Has(active_exercises, 1) /\ Has(active_exercises, 2)
    /\ Has(user_chat_history, 1) /\ Has(user_chat_history, 2)
    /\ Has(active_tests, 2)
    /\ has_completed_test[1] /\ has_completed_test[2]

\* C32: every exercise answer event rejected as stale or duplicate input
\* (a repeated answer for an index, a token other than the current one, an
\* index past the end) leaves the items, answers, cursor and token as they
\* were and sends the user an informational message.
C32_RejectedAnswerIsReported ==
    \A u \in AllUsers : \A cb \in ArrivingCallbacks :
        (/\ DOMAIN pending = {}
         /\ cb.parts = 4
         /\ cb.int_index
         /\ CanGetSessionId(u))
        => \E out \in {AnswerOutcome(u, cb)} :
               (\/ out.msg.kind \in {"stale_session", "out_of_range"}
                \/ "duplicate_ignored" \in out.msg.log)
               => /\ out.active = active_exercises
                  /\ out.answers = user_answers
                  /\ out.index = user_current_index
                  /\ out.sids = session_ids
                  /\ out.msg.kind # "none"

\* C33: every event of the fixed test, the callbacks arriving without a
\* session included, ends with a message sent to the user, and no handler
\* ends by an error that is logged and swallowed.
C33_EveryEventIsAnswered ==
    [][/\ reply'.kind # "none"
       /\ "handler_error" \notin reply'.log]_vars

\* C34: while a user's exercise session stays the same (same items, same
\* token), no event lowers the cursor user_current_index of that user.
C34_CursorNeverDecreases ==
    [][\A u \in AllUsers :
           (/\ Has(active_exercises, u) /\ Has(active_exercises', u)
            /\ active_exercises'[u] = active_exercises[u]
            /\ Has(session_ids, u) /\ Has(session_ids', u)
            /\ session_ids'[u] = session_ids[u]
            /\ Has(user_current_index, u))
           => /\ Has(user_current_index', u)
              /\ user_current_index'[u] >= user_current_index[u]]_vars

C36_AdvanceFromCallbackIndex ==
    \A u \in AllUsers : \A cb \in ArrivingCallbacks :
        (/\ DOMAIN pending = {}
         /\ cb.parts = 4
         /\ cb.int_index
         /\ CanGetSessionId(u))
        => \E out \in {AnswerOutcome(u, cb)} :
               "answer_submitted" \in out.msg.log
               => IF cb.index + 1 < Len(active_exercises[u])
                  THEN /\ Has(out.index, u)
                       /\ out.index[u] = cb.index + 1
                       /\ out.msg.kind = "exercise"
                       /\ out.msg.data.index = cb.index + 1
                       /\ out.active = active_exercises
                  ELSE /\ ~Has(out.active, u)
                       /\ out.msg.kind = "results"

\* An answer was accepted for an index other than the cursor: the next
\* exercise shown is the first one, although an answer of the first one is
\* stored already.
C36_AcceptedAwayFromCursor ==
    \E u \in AllUsers :
        /\ reply.kind = "exercise"
        /\ "answer_submitted" \in reply.log
        /\ Has(user_current_index, u)
        /\ user_current_index[u] = 0
        /\ reply.data.index = 0
        /\ \E key \in DOMAIN user_answers[u] : key[3] = 0

\* C37: while a fixed test of a user is in progress (cursor above 0 and
\* below the number of questions), no event other than the restart and the
\* cancel choice discards it: the session is neither replaced by one with
\* a lower cursor nor removed without its results being reported.
C37_OnlyRestartAndCancelDiscard ==
    [][\A u \in AllUsers :
           (/\ Has(active_tests, u)
            /\ 0 < active_tests[u].current_question
            /\ active_tests[u].current_question < Len(active_tests[u].questions)
            /\ IF Has(active_tests', u)
               THEN active_tests'[u].current_question < active_tests[u].current_question
               ELSE reply'.kind # "test_results")
           => \/ reply'.kind = "test_cancelled"
              \/ /\ reply'.kind = "question"
                 /\ reply'.data.replaces = "test_restart"]_vars

\* C38: in every fixed-test session the answer log has as many entries as
\* the cursor tells, the i-th entry is the one of the i-th question of the
\* session (its id, correct answer and section), and the score is the
\* number of entries marked correct, hence at most the cursor.
C38_LogCursorAndScoreAgree ==
    \A u \in DOMAIN active_tests :
        LET test == active_tests[u]
        IN  /\ Len(test.answers) = test.current_question
            /\ test.current_question <= Len(test.questions)
            /\ \A i \in 1..Len(test.answers) :
                   /\ test.answers[i].question_id = test.questions[i].id
                   /\ test.answers[i].correct_answer = test.questions[i].correct_answer
                   /\ test.answers[i].section = test.questions[i].section
                   /\ test.answers[i].is_correct =
                          (test.answers[i].user_answer = test.questions[i].correct_answer)
            /\ test.score =
                   Cardinality({i \in 1..Len(test.answers) : test.answers[i].is_correct})
            /\ test.score <= test.current_question

\* A session holds a wrong answer to its first question and stands at the
\* second one with score 0, after an earlier test of the user was finished.
C38_WrongAnswerLoggedAfterRestart ==
    \E u \in DOMAIN active_tests :
        /\ active_tests[u].current_question = 1
        /\ Len(active_tests[u].answers) = 1
        /\ ~active_tests[u].answers[1].is_correct
        /\ active_tests[u].score = 0
        /\ Has(test_results, u)

\* C39: the exercise_finish button pressed on a message of an earlier
\* session (the session installed now has not sent that button yet) leaves
\* the installed session as it is: its items, its answers and its token
\* stay and it is not finished.
C39_OldFinishButtonLeavesNewSession ==
    [][\A u \in AllUsers :
           (/\ Has(active_exercises, u)
            /\ Has(session_ids, u)
            /\ rendered[u].finish # {}
            /\ ShortOf(session_ids[u]) \notin rendered[u].finish
            /\ reply'.to = u
            /\ reply'.kind \in {"results", "finish_error"}
            /\ "answer_submitted" \notin reply'.log)
           => /\ active_exercises' = active_exercises
              /\ user_answers' = user_answers
              /\ session_ids' = session_ids]_vars

\* C40: while a user has a fixed-test session, the vocabulary and the
\* grammar entry point are suppressed whether or not has_completed_test is
\* set: no exercise session, answers map, cursor or token is created,
\* reset or changed, the generator is not called, the fixed-test session and
\* the record stay as they are, and the user is told to finish the test.
C40_RunningTestSuppressesExercises ==
    [][\A u \in AllUsers :
          (/\ Has(active_tests, u)
           /\ (VocabularyCommand(u) \/ GrammarCommand(u)))
          => /\ UNCHANGED <<active_exercises, user_answers, user_current_index,
                            session_ids, uuid_count, pending, active_tests,
                            has_completed_test, record_test_results, test_file,
                            test_results>>
             /\ reply'.to = u
             /\ reply'.kind = "finish_test_first"]_vars

\* A user with the flag set and an exercise session installed was told to
\* finish the running test first; the exercise session is still there.
C40_SuppressedWithFlagSet ==
    \E u \in AllUsers :
        /\ Has(active_tests, u)
        /\ has_completed_test[u]
        /\ Has(active_exercises, u)
        /\ Has(user_current_index, u)
        /\ reply.to = u
        /\ reply.kind = "finish_test_first"

====
